---- MODULE Spec2Model ----
(***************************************************************************)
(* Icon cache of the OpenRouter search workflow: the metadata store of     *)
(* download_icon.py (icons.json, guarded by flock on icons.json.lock and   *)
(* saved by write-temp-then-rename), the downloader processes that update  *)
(* it, and the foreground resolver IconManager of workflow/icons.py.       *)
(***************************************************************************)
EXTENDS Integers, Sequences, FiniteSets, TLC

(***************************************************************************)
(* Bounds of the model.                                                    *)
(***************************************************************************)
\* Number of downloader runs (calls of update_metadata_atomic) in one behaviour.
MaxUpdates == 2

\* Number of provider names on the command line of one downloader process.
MaxArgv == 2
\* The time at which the clock starts.
Epoch == 1700000000
\* Number of pieces a response body is made of.
MaxPieces == 3
\* Number of seconds the clock advances while the cache file is read.
MaxAge == 3
\* Number of characters of the author and of the slug of a model id.
MaxPart == 2
\* Number of files in the endpoints directory.
MaxCached == 2

(***************************************************************************)
(* Program constants.                                                      *)
(***************************************************************************)
Providers == {"Qwen", "Ac/me"}
Writers == {"w1", "w2"}
NoWriter == "none"

\* Provider names are strings; the character operations of the generator
\* (lower, replace, endswith, isalnum) work on their spelling.
Names == Providers \cup {"Arcee AI", "NousResearch", "DeepCogito Labs", "Z.ai", "../x"}
Chars(p) ==
    CASE p = "Qwen" -> <<"Q", "w", "e", "n">>
      [] p = "Ac/me" -> <<"A", "c", "/", "m", "e">>
      [] p = "Arcee AI" -> <<"A", "r", "c", "e", "e", " ", "A", "I">>
      [] p = "NousResearch" -> <<"N", "o", "u", "s", "R", "e", "s", "e", "a", "r", "c", "h">>
      [] p = "DeepCogito Labs" -> <<"D", "e", "e", "p", "C", "o", "g", "i", "t", "o", " ",
                                    "L", "a", "b", "s">>
      [] p = "Z.ai" -> <<"Z", ".", "a", "i">>
      [] p = "../x" -> <<".", ".", "/", "x">>
      [] OTHER -> << >>
UpperLetters == <<"A", "B", "C", "D", "E", "F", "G", "H", "I", "J", "K", "L", "M",
                  "N", "O", "P", "Q", "R", "S", "T", "U", "V", "W", "X", "Y", "Z">>
LowerLetters == <<"a", "b", "c", "d", "e", "f", "g", "h", "i", "j", "k", "l", "m",
                  "n", "o", "p", "q", "r", "s", "t", "u", "v", "w", "x", "y", "z">>
Digits == {"0", "1", "2", "3", "4", "5", "6", "7", "8", "9"}
Range(f) == { f[i] : i \in DOMAIN f }

\* "".join(chars)
RECURSIVE Join(_)
Join(cs) == IF cs = << >> THEN "" ELSE Head(cs) \o Join(Tail(cs))

LowerChar(c) ==
    IF c \in Range(UpperLetters)
    THEN LowerLetters[CHOOSE i \in DOMAIN UpperLetters : UpperLetters[i] = c]
    ELSE c
StrLower(cs) == [i \in 1..Len(cs) |-> LowerChar(cs[i])]
\* str.replace(ch, "")
Without(cs, ch) == SelectSeq(cs, LAMBDA c : c # ch)
IsAlnum(c) == c \in Range(UpperLetters) \cup Range(LowerLetters) \cup Digits
\* An endswith that never matches.
EndsWithNever(cs, suf) == FALSE
\* str.endswith
EndsWith(cs, suf) ==
    Len(cs) >= Len(suf) /\ SubSeq(cs, Len(cs) - Len(suf) + 1, Len(cs)) = suf

\* _sanitize_name: the characters that are alphanumeric or one of ._-
SanitizeChars(cs) == SelectSeq(cs, LAMBDA c : IsAlnum(c) \/ c \in {".", "_", "-"})
SanitizedNames == [n \in Names |-> Join(SanitizeChars(Chars(n)))]
\* A _sanitize_name that keeps every character.
SanitizeNameKeepsAll(p) == Join(Chars(p))
SanitizeName(p) == SanitizedNames[p]
\* provider_name.lower()
Lower(p) == Join(StrLower(Chars(p)))
\* provider_name.replace(" ", "")
NoSpaces(p) == Join(Without(Chars(p), " "))

\* METADATA_FILE and the files derived from it: the content of a file is a
\* record [kind, map]; kind "missing" (no such file), "partial" (a file whose
\* JSON text is not complete), "list" (complete JSON that is not an object),
\* "map" (a JSON object, held in map).
NoMap == <<>>
FileMissing == [kind |-> "missing", map |-> NoMap]
FilePartial == [kind |-> "partial", map |-> NoMap]
FileList == [kind |-> "list", map |-> NoMap]
FileOf(m) == [kind |-> "map", map |-> m]
\* dict.get(key) is None: no entry, no result
NoEntry == << >>
\* IconManager._metadata is None
MetaNone == [kind |-> "none", map |-> NoMap]
\* The bytes of an icon file that was there before the run.
OldBody == <<"old">>
\* f.write(data) on open(path, "wb"): the file holds data.
WriteFile(fb, f, data) == [g \in DOMAIN fb \cup {f} |-> IF g = f THEN data ELSE fb[g]]
\* No get_endpoints call has been made.
NoGet == [id |-> << >>, file |-> << >>, returned |-> << >>, called |-> FALSE]
\* No _try_download call has been made.
NoResponse == [body |-> << >>, target |-> "", valid |-> FALSE, wrote |-> FALSE, called |-> FALSE]
\* os.path.exists(path) is false for the cache file.
CacheFileMissing == [kind |-> "missing", mtime |-> 0]
\* No CacheManager.read call has been made.
NoRead == [ttl |-> 0, age |-> 0, kind |-> "", result |-> "", called |-> FALSE]

VARIABLES
    doc,        \* icons.json
    tmp,        \* icons.json.tmp
    lock,       \* holder of the flock on icons.json.lock, or NoWriter
    files,      \* names of the files of the icons directory
    now,        \* the clock, time.time()
    wpc,        \* per downloader process: where it is
    batch,      \* per downloader process: new_entries of update_metadata_atomic
    current,    \* per downloader process: the local "current" of the critical section
    updates,    \* number of update_metadata_atomic calls issued so far
    savedKeys,  \* history: provider keys of the batches whose call saved and returned
    docAtLoad,  \* history, per process: icons.json as it was when the process loaded it
    seen,       \* history: the kind of icons.json a lock-free reader opened last
    overlap,    \* history: two update_metadata_atomic calls were in progress at once
    wprov,      \* per downloader process: the provider of sys.argv it is acquiring
    idx,        \* per downloader process: position in the candidate list
    metadata,   \* IconManager._metadata of the foreground process
    triggered,  \* IconManager._triggered of the foreground process
    fgpc,       \* the foreground process: "ready", "waiting" (in Popen.__exit__), "raised"
    fgarg,      \* provider_name of the current or last get_icon_path call
    fgpath,     \* what that call returns: "default" or the name of an icon file
    spawns,     \* history: Popen calls per provider in the foreground process
    clearpc,    \* the cache clearing command: "idle" or "icons_removed"
    answering,  \* the network: "first" (only the first MaxLive candidates answer) or "any"
    argv,       \* sys.argv[2:] of the downloader process Runner
    workers,    \* max_workers of its ThreadPoolExecutor, 0 when it has none
    tpc,        \* per worker: "none", "run", "done", "raised", "collected", "logged"
    tidx,       \* per worker: position in the candidate list
    tres,       \* per worker: the entry download_provider_icon returned
    tfetch,     \* history, per worker: the candidate positions it has fetched, in order
    new_results,\* new_results of main
    ucalls,     \* history, per process: update_metadata_atomic calls of this invocation
    wfetch,     \* history, per process: the candidate positions it has fetched, in order
    resp,       \* the last _try_download call: its body, target, verdict and write
    cfile,      \* a file of the cache directory of CacheManager
    cread,      \* the last CacheManager.read call: its ttl, the age and kind of the file, its result
    fbody,      \* per file of the icons directory: the bytes it holds
    efiles,     \* the endpoints directory: per file name, the model id whose endpoints it holds
    eget,       \* history: the last get_endpoints call of the workflow
    rederived   \* history: per file refresh_all went through, the id it derived and the id held

dlVars == <<wprov, idx>>
fgVars == <<metadata, triggered, fgpc, fgarg, fgpath, spawns>>
poolVars == <<answering, argv, workers, tpc, tidx, tres, tfetch, new_results>>
auxVars == <<resp, cfile, cread>>
endVars == <<efiles, eget, rederived>>

vars == <<doc, tmp, lock, files, now, wpc, batch, current, updates,
          savedKeys, docAtLoad, seen, overlap, dlVars, fgVars, clearpc, poolVars, ucalls,
          wfetch, auxVars, endVars, fbody>>

(***************************************************************************)
(* Entries: JSON objects, modelled as records whose optional fields may be *)
(* absent.                                                                 *)
(***************************************************************************)
Has(e, k) == k \in DOMAIN e
Put(e, k, v) == (k :> v) @@ e

\* dict.get("status")
StatusOf(e) == IF Has(e, "status") THEN e.status ELSE "none"
\* old_data.get("url") as a truth value: present and not empty
HasUrl(e) == Has(e, "url") /\ e.url # ""

\* The local file name of an icon: _sanitize_name(provider) plus an extension.
IconFile(p, ext) == SanitizeName(p) \o ext

SuccessEntry(p, f, u, t) ==
    [provider |-> p, filename |-> f, url |-> u, timestamp |-> t, status |-> "success"]
FailedEntry(p, t) == [provider |-> p, timestamp |-> t, status |-> "failed"]
CachedEntry(p, f, t) == [provider |-> p, filename |-> f, timestamp |-> t, status |-> "cached"]

(***************************************************************************)
(* The metadata store of download_icon.py.                                 *)
(***************************************************************************)
\* load_metadata: the parsed document, {} when the file is missing or does
\* not parse; JSON that is not an object is returned as it is.
load_metadata(d) ==
    IF d.kind = "map" THEN d
    ELSE IF d.kind = "list" THEN FileList
    ELSE FileOf(NoMap)

\* A merge whose failed branch lets the incoming entry replace the existing one.
MergeFailedOverwrites(cur, p, new) == new

\* A merge whose failed branch marks the existing success entry as failed
\* and keeps its other fields.
MergeFailedKeepsFile(cur, p, new) ==
    IF p \in DOMAIN cur /\ DOMAIN cur[p] # {} /\ StatusOf(cur[p]) = "success"
    THEN Put(Put(cur[p], "timestamp", new.timestamp), "status", "failed")
    ELSE new

\* The failed branch of the merge: an existing success entry is kept and only
\* its timestamp is overwritten.
MergeFailed(cur, p, new) ==
    IF p \in DOMAIN cur /\ DOMAIN cur[p] # {} /\ StatusOf(cur[p]) = "success"
    THEN Put(cur[p], "timestamp", new.timestamp)
    ELSE new

\* A merge whose cached branch forgets the url of the existing entry.
MergeCachedDropsUrl(cur, p, new) == new

\* The cached branch of the merge: the url of the existing entry is carried
\* into the incoming one.
MergeCached(cur, p, new) ==
    IF p \in DOMAIN cur /\ DOMAIN cur[p] # {} /\ HasUrl(cur[p])
    THEN Put(new, "url", cur[p].url)
    ELSE new

\* One iteration of the loop over new_entries.items(): the entry stored for p.
MergeEntry(cur, p, new) ==
    IF StatusOf(new) = "failed" THEN MergeFailed(cur, p, new)
    ELSE IF StatusOf(new) = "cached" THEN MergeCached(cur, p, new)
    ELSE new

\* The whole loop: each iteration reads and writes current[provider] only, so
\* the iterations are independent of their order.
MergeAll(cur, new) ==
    [p \in DOMAIN cur \cup DOMAIN new |->
        IF p \in DOMAIN new THEN MergeEntry(cur, p, new[p]) ELSE cur[p]]

\* An update that does not wait for the lock.
FlockNeverBlocks(w) == TRUE

\* fcntl.flock(lockfile, LOCK_EX) blocks until no other process holds the lock.
FlockGranted(w) == lock = NoWriter

\* (AfterOpenInPlace: a save that opens icons.json itself for writing.)
\* save_metadata, step by step: <<icons.json, icons.json.tmp>> after
\* open(temp_path, "w"), after json.dump and close, and after os.replace.
AfterOpenInPlace(d, t) == <<FilePartial, t>>
AfterOpen(d, t) == <<d, FilePartial>>
AfterDump(d, t, cur) == <<d, FileOf(cur)>>
AfterReplace(d, t) == <<t, FileMissing>>

\* The entries an update may carry for provider p at time t.
ICON_BASE_URL(name) == "https://openrouter.ai/images/icons/" \o name
EntryChoices(p, t) ==
    { SuccessEntry(p, IconFile(p, ".png"), ICON_BASE_URL(IconFile(p, ".png")), t),
      FailedEntry(p, t),
      CachedEntry(p, IconFile(p, ".svg"), t) }
Batches(t) ==
    UNION { { b \in [S -> UNION { EntryChoices(p, t) : p \in S }] :
                \A p \in S : b[p] \in EntryChoices(p, t) } :
            S \in (SUBSET Providers) \ {{}} }

\* The batches that hold one entry.
SingleBatches(t) == { b \in Batches(t) : Cardinality(DOMAIN b) = 1 }

\* update_metadata_atomic(cache_dir, new_entries) is called by process w,
\* with new_entries one of bs.
UpdateCallFrom(w, bs) ==
    /\ wpc[w] = "idle"
    /\ updates < MaxUpdates
    /\ \E b \in bs : batch' = [batch EXCEPT ![w] = b]
    /\ wpc' = [wpc EXCEPT ![w] = "lock"]
    /\ updates' = updates + 1
    /\ now' = now + 1
    /\ overlap' = (overlap \/ \E v \in Writers \ {w} : wpc[v] \notin {"idle", "crashed"})
    /\ UNCHANGED <<doc, tmp, lock, files, current, savedKeys, docAtLoad, seen, dlVars, fgVars, clearpc>>
    /\ UNCHANGED <<poolVars, ucalls, wfetch, auxVars, endVars, fbody>>

UpdateCall(w) == UpdateCallFrom(w, Batches(now))
\* The call of a downloader that was given one provider name.
UpdateCallSingle(w) == UpdateCallFrom(w, SingleBatches(now))

\* open(lock_path, "a") and flock(LOCK_EX)
Lock(w) ==
    /\ wpc[w] = "lock"
    /\ FlockGranted(w)
    /\ lock' = w
    /\ wpc' = [wpc EXCEPT ![w] = "load"]
    /\ UNCHANGED <<doc, tmp, files, now, batch, current, updates, savedKeys, docAtLoad, seen, overlap, dlVars, fgVars, clearpc>>
    /\ UNCHANGED <<poolVars, ucalls, wfetch, auxVars, endVars, fbody>>

\* current = load_metadata(cache_dir)
Load(w) ==
    /\ wpc[w] = "load"
    /\ current' = [current EXCEPT ![w] = load_metadata(doc)]
    /\ docAtLoad' = [docAtLoad EXCEPT ![w] = doc]
    /\ wpc' = [wpc EXCEPT ![w] = "merge"]
    /\ UNCHANGED <<doc, tmp, lock, files, now, batch, updates, savedKeys, seen, overlap, dlVars, fgVars, clearpc>>
    /\ UNCHANGED <<poolVars, ucalls, wfetch, auxVars, endVars, fbody>>

\* The merge raises when current is no dict (current.get, current[provider] =)
\* or when old_data is a truthy value that is no dict (old_data.get).
MergeRaises(cur, new) ==
    \/ cur.kind # "map"
    \/ \E p \in DOMAIN new \cap DOMAIN cur.map :
          /\ StatusOf(new[p]) \in {"failed", "cached"}
          /\ DOMAIN cur.map[p] # {}
          /\ Has(cur.map[p], "nondict")

\* The merge loop; when it raises, the finally clause unlocks and the
\* exception is logged.
Merge(w) ==
    /\ wpc[w] = "merge"
    /\ IF ~MergeRaises(current[w], batch[w])
       THEN /\ current' = [current EXCEPT ![w] = FileOf(MergeAll(current[w].map, batch[w]))]
            /\ wpc' = [wpc EXCEPT ![w] = "save_open"]
       ELSE /\ current' = current
            /\ wpc' = [wpc EXCEPT ![w] = "unlock"]
    /\ UNCHANGED <<doc, tmp, lock, files, now, batch, updates, savedKeys, docAtLoad, seen, overlap, dlVars, fgVars, clearpc>>
    /\ UNCHANGED <<poolVars, ucalls, wfetch, auxVars, endVars, fbody>>

\* save_metadata: open(temp_path, "w"); an OSError is logged and save returns.
SaveOpen(w) ==
    /\ wpc[w] = "save_open"
    /\ \E ok \in BOOLEAN :
         IF ok
         THEN /\ doc' = AfterOpen(doc, tmp)[1]
              /\ tmp' = AfterOpen(doc, tmp)[2]
              /\ wpc' = [wpc EXCEPT ![w] = "save_dump"]
         ELSE /\ UNCHANGED <<doc, tmp>>
              /\ wpc' = [wpc EXCEPT ![w] = "unlock"]
    /\ UNCHANGED <<lock, files, now, batch, current, updates, savedKeys, docAtLoad, seen, overlap, dlVars, fgVars, clearpc>>
    /\ UNCHANGED <<poolVars, ucalls, wfetch, auxVars, endVars, fbody>>

\* save_metadata: json.dump(metadata, f, sort_keys=True) and the close of f.
SaveDump(w) ==
    /\ wpc[w] = "save_dump"
    /\ \E ok \in BOOLEAN :
         IF ok
         THEN /\ doc' = AfterDump(doc, tmp, current[w].map)[1]
              /\ tmp' = AfterDump(doc, tmp, current[w].map)[2]
              /\ wpc' = [wpc EXCEPT ![w] = "save_replace"]
         ELSE /\ UNCHANGED <<doc, tmp>>
              /\ wpc' = [wpc EXCEPT ![w] = "unlock"]
    /\ UNCHANGED <<lock, files, now, batch, current, updates, savedKeys, docAtLoad, seen, overlap, dlVars, fgVars, clearpc>>
    /\ UNCHANGED <<poolVars, ucalls, wfetch, auxVars, endVars, fbody>>

\* save_metadata: os.replace(temp_path, path)
SaveReplace(w) ==
    /\ wpc[w] = "save_replace"
    /\ doc' = AfterReplace(doc, tmp)[1]
    /\ tmp' = AfterReplace(doc, tmp)[2]
    /\ savedKeys' = savedKeys \cup DOMAIN batch[w]
    /\ wpc' = [wpc EXCEPT ![w] = "saved"]
    /\ UNCHANGED <<lock, files, now, batch, current, updates, docAtLoad, seen, overlap, dlVars, fgVars, clearpc>>
    /\ UNCHANGED <<poolVars, ucalls, wfetch, auxVars, endVars, fbody>>

\* The downloader process that is started from the command line, its workers,
\* and their state when the process is not running.
Runner == "w2"
Threads == 1..MaxArgv
PoolReset ==
    /\ argv' = << >>
    /\ workers' = 0
    /\ tpc' = [k \in Threads |-> "none"]
    /\ tidx' = [k \in Threads |-> 0]
    /\ tres' = [k \in Threads |-> << >>]
    /\ tfetch' = [k \in Threads |-> << >>]
    /\ new_results' = NoMap
    /\ UNCHANGED answering

\* An unlock that leaves the lock with its holder.
ReleasedNever(l, w) == l

\* flock(LOCK_UN) by w: the holder of the lock afterwards.
Released(l, w) == IF l = w THEN NoWriter ELSE l

\* finally: flock(LOCK_UN), and the return of update_metadata_atomic; at
\* "saved" save_metadata has returned after os.replace, at "unlock" the merge
\* or the save has raised.
Unlock(w) ==
    /\ wpc[w] \in {"unlock", "saved"}
    /\ lock' = Released(lock, w)
    /\ wpc' = [wpc EXCEPT ![w] = "idle"]
    /\ batch' = [batch EXCEPT ![w] = NoMap]
    /\ current' = [current EXCEPT ![w] = FileOf(NoMap)]
    /\ docAtLoad' = [docAtLoad EXCEPT ![w] = FileMissing]
    /\ wprov' = [wprov EXCEPT ![w] = ""]
    /\ idx' = [idx EXCEPT ![w] = 0]
    /\ UNCHANGED <<doc, tmp, files, now, updates, savedKeys, seen, overlap, fgVars, clearpc>>
    /\ ucalls' = [ucalls EXCEPT ![w] = 0]
    /\ wfetch' = [wfetch EXCEPT ![w] = << >>]
    /\ IF w = Runner /\ argv # << >> THEN PoolReset ELSE UNCHANGED poolVars
    /\ UNCHANGED <<auxVars, endVars, fbody>>

\* The process dies inside update_metadata_atomic (killed, power loss): the
\* kernel drops its flock; the files stay as they are.
Crash(w) ==
    /\ wpc[w] \in {"load", "merge", "save_open", "save_dump", "save_replace", "saved", "unlock"}
    /\ lock' = IF lock = w THEN NoWriter ELSE lock
    /\ wpc' = [wpc EXCEPT ![w] = "crashed"]
    /\ batch' = [batch EXCEPT ![w] = NoMap]
    /\ current' = [current EXCEPT ![w] = FileOf(NoMap)]
    /\ docAtLoad' = [docAtLoad EXCEPT ![w] = FileMissing]
    /\ wprov' = [wprov EXCEPT ![w] = ""]
    /\ idx' = [idx EXCEPT ![w] = 0]
    /\ UNCHANGED <<doc, tmp, files, now, updates, savedKeys, seen, overlap, fgVars, clearpc>>
    /\ ucalls' = [ucalls EXCEPT ![w] = 0]
    /\ wfetch' = [wfetch EXCEPT ![w] = << >>]
    /\ IF w = Runner /\ argv # << >> THEN PoolReset ELSE UNCHANGED poolVars
    /\ UNCHANGED <<auxVars, endVars, fbody>>

\* A lock-free reader (IconManager._get_metadata) opens icons.json.
ReadDoc ==
    /\ seen' = doc.kind
    /\ UNCHANGED <<doc, tmp, lock, files, now, wpc, batch, current, updates, savedKeys, docAtLoad, overlap, dlVars, fgVars, clearpc>>
    /\ UNCHANGED <<poolVars, ucalls, wfetch, auxVars, endVars, fbody>>

StoreStep(w) ==
    \/ Lock(w) \/ Load(w) \/ Merge(w)
    \/ SaveOpen(w) \/ SaveDump(w) \/ SaveReplace(w) \/ Unlock(w)

\* No downloader is acquiring, the foreground process has just started, and
\* no cache clearing is under way.
InitIdle ==
    /\ wprov = [w \in Writers |-> ""]
    /\ idx = [w \in Writers |-> 0]
    /\ metadata = MetaNone
    /\ triggered = {}
    /\ fgpc = "ready"
    /\ fgarg = ""
    /\ fgpath = ""
    /\ spawns = [p \in Providers |-> 0]
    /\ clearpc = "idle"
    /\ argv = << >>
    /\ workers = 0
    /\ tpc = [k \in Threads |-> "none"]
    /\ tidx = [k \in Threads |-> 0]
    /\ tres = [k \in Threads |-> << >>]
    /\ tfetch = [k \in Threads |-> << >>]
    /\ new_results = NoMap
    /\ ucalls = [w \in Writers |-> 0]
    /\ wfetch = [w \in Writers |-> << >>]
    /\ resp = NoResponse
    /\ cfile = CacheFileMissing
    /\ cread = NoRead
    /\ fbody = [f \in files |-> OldBody]
    /\ efiles = << >>
    /\ eget = NoGet
    /\ rederived = {}

InitStore ==
    /\ doc = FileMissing
    /\ tmp = FileMissing
    /\ lock = NoWriter
    /\ files = {}
    /\ now = 1
    /\ wpc = [w \in Writers |-> "idle"]
    /\ batch = [w \in Writers |-> NoMap]
    /\ current = [w \in Writers |-> FileOf(NoMap)]
    /\ updates = 0
    /\ savedKeys = {}
    /\ docAtLoad = [w \in Writers |-> FileMissing]
    /\ seen = "nothing"
    /\ overlap = FALSE
    /\ answering = "first"
    /\ InitIdle

NextStore ==
    \/ \E w \in Writers : UpdateCall(w)
    \/ \E w \in Writers : StoreStep(w)
    \/ \E w \in Writers : Crash(w)
    \/ ReadDoc

SpecStore == InitStore /\ [][NextStore]_vars

\* The same store when no process hangs: a process that can take a step of
\* update_metadata_atomic eventually takes it, and flock grants the lock to a
\* process that is again and again able to take it.
NextStoreFair ==
    \/ \E w \in Writers : UpdateCallSingle(w)
    \/ \E w \in Writers : StoreStep(w)
    \/ \E w \in Writers : Crash(w)

SpecStoreFair ==
    /\ InitStore
    /\ [][NextStoreFair]_vars
    /\ \A w \in Writers : WF_vars(StoreStep(w)) /\ SF_vars(Lock(w))

(***************************************************************************)
(* Candidate generation of download_icon.py, for the names of Names.       *)
(***************************************************************************)
\* Only the first MaxLive candidates of a provider ever answer with an image.
MaxLive == 1

\* The static maps, restricted to the lowercased names of Names.
OPENROUTER_MAP == [k \in {"qwen"} |-> "Qwen.png"]
DOMAIN_MAP ==
    [k \in {"qwen", "arcee ai", "nousresearch", "z.ai"} |->
        CASE k = "qwen" -> "https://qwen.ai"
          [] k = "arcee ai" -> "https://arcee.ai"
          [] k = "nousresearch" -> "https://nousresearch.com"
          [] k = "z.ai" -> "https://z.ai"]
\* os.path.splitext(mapped)[1] or ".svg"
MappedExt(k) == IF k = "qwen" THEN ".png" ELSE ".svg"
FAVICON_BASE_URL(domain) ==
    "https://t0.gstatic.com/faviconV2?client=SOCIAL&type=FAVICON&fallback_opts=TYPE,SIZE,URL&url="
        \o domain \o "&size=256"
IMAGE_EXTENSIONS == <<".svg", ".png", ".jpg", ".jpeg">>
Tlds == <<"ai", "com", "io">>
Suffixes == << <<"a", "i">>, <<"l", "a", "b">>, <<"l", "a", "b", "s">>,
               <<"r", "e", "s", "e", "a", "r", "c", "h">>, <<"t", "e", "c", "h">> >>

\* roots: the cleaned name and the cleaned name without each suffix that ends it.
Roots(clean) ==
    {clean} \cup { SubSeq(clean, 1, Len(clean) - Len(suf)) :
                     suf \in { x \in Range(Suffixes) : EndsWith(clean, x) /\ Len(clean) > Len(x) } }
\* A sort key that is the same for every root.
SortKeyConstant(r) == 0
\* key=len
SortKey(r) == Len(r)
\* list(roots): a set is iterated in an order the language does not fix
\* (string hashes differ from process to process), so every arrangement of
\* the roots is a possible list.
Listings(rs) == { s \in [1..Cardinality(rs) -> rs] : Range(s) = rs }
\* sorted(xs, key=len, reverse=True) is stable: the elements of xs by
\* descending key, elements of equal key in the order of xs.
IsStableSortDesc(s, xs) ==
    /\ Len(s) = Len(xs)
    /\ Range(s) = Range(xs)
    /\ \A i, j \in 1..Len(s) : i < j => SortKey(s[i]) >= SortKey(s[j])
    /\ \A i, j \in 1..Len(xs) :
         (i < j /\ SortKey(xs[i]) = SortKey(xs[j])) =>
             \E a, b \in 1..Len(s) : a < b /\ s[a] = xs[i] /\ s[b] = xs[j]
\* The lists sorted(list(roots), key=len, reverse=True) can be.
RootOrders(rs) == { s \in Listings(rs) : \E xs \in Listings(rs) : IsStableSortDesc(s, xs) }
\* A sort by ascending length.
RECURSIVE SortedByLenAsc(_)
SortedByLenAsc(rs) ==
    IF rs = {} THEN << >>
    ELSE LET r == CHOOSE x \in rs : \A y \in rs : Len(y) >= Len(x)
         IN << r >> \o SortedByLenAsc(rs \ {r})
\* sorted(list(roots), key=len, reverse=True); roots are prefixes of one
\* name, so no two of them have the same length.
RECURSIVE SortedByLenDesc(_)
SortedByLenDesc(rs) ==
    IF rs = {} THEN << >>
    ELSE LET r == CHOOSE x \in rs : \A y \in rs : SortKey(y) <= SortKey(x)
         IN << r >> \o SortedByLenDesc(rs \ {r})
\* The first occurrence of each element of a list, in order.
RECURSIVE Unique(_, _)
Unique(xs, seenSet) ==
    IF xs = << >> THEN << >>
    ELSE IF Head(xs) \in seenSet THEN Unique(Tail(xs), seenSet)
    ELSE << Head(xs) >> \o Unique(Tail(xs), seenSet \cup {Head(xs)})
\* roots x tlds, root-major
RECURSIVE DomainsOf(_)
DomainsOf(roots) ==
    IF roots = << >> THEN << >>
    ELSE [i \in 1..Len(Tlds) |-> "https://" \o Join(Head(roots)) \o "." \o Tlds[i]]
         \o DomainsOf(Tail(roots))

\* provider_name.lower().replace(" ", "").replace(".", "")
CleanName(p) == Without(Without(StrLower(Chars(p)), " "), ".")

get_candidate_domains(p) ==
    Unique(DomainsOf(SortedByLenDesc(Roots(CleanName(p)))), {})

\* get_candidate_domains(name) and its sorted roots, for each name
DomainLists == [n \in Names |-> get_candidate_domains(n)]
SortedRoots == [n \in Names |-> SortedByLenDesc(Roots(CleanName(n)))]

\* The lists get_candidate_domains(p) can return, over the orders in which
\* the set of roots can be iterated.
CandidateDomainLists(p) ==
    { Unique(DomainsOf(rs), {}) : rs \in RootOrders(Roots(CleanName(p))) }

\* A _candidate that files everything under one category.
CandidateOneCategory(url, filename, category) ==
    [url |-> url, filename |-> filename, category |-> "openrouter-heuristic"]

\* _candidate; the path is the file name under the icons directory.
Candidate(url, filename, category) ==
    [url |-> url, filename |-> filename, category |-> category]

\* _build_candidates, given the list get_candidate_domains returns
BuildCandidatesFrom(p, domains) ==
    (IF Lower(p) \in DOMAIN OPENROUTER_MAP
     THEN << Candidate(ICON_BASE_URL(OPENROUTER_MAP[Lower(p)]),
                       IconFile(p, MappedExt(Lower(p))), "openrouter-mapped") >>
     ELSE << >>)
    \o (IF Lower(p) \in DOMAIN DOMAIN_MAP
        THEN << Candidate(FAVICON_BASE_URL(DOMAIN_MAP[Lower(p)]),
                          IconFile(p, ".png"), "domain-mapped") >>
        ELSE << >>)
    \o [i \in 1..Len(IMAGE_EXTENSIONS) |->
            Candidate(ICON_BASE_URL(NoSpaces(p) \o IMAGE_EXTENSIONS[i]),
                      IconFile(p, IMAGE_EXTENSIONS[i]), "openrouter-heuristic")]
    \o [i \in 1..Len(domains) |->
            Candidate(FAVICON_BASE_URL(domains[i]), IconFile(p, ".png"), "domain-heuristic")]

\* _build_candidates
BuildCandidates(p) == BuildCandidatesFrom(p, get_candidate_domains(p))

\* A _deduplicate that keeps every candidate.
DeduplicateKeepsAll(cs, seenUrls) == cs

\* _deduplicate: the first occurrence of each url, in order.
RECURSIVE Deduplicate(_, _)
Deduplicate(cs, seenUrls) ==
    IF cs = << >> THEN << >>
    ELSE IF Head(cs).url \in seenUrls THEN Deduplicate(Tail(cs), seenUrls)
    ELSE << Head(cs) >> \o Deduplicate(Tail(cs), seenUrls \cup {Head(cs).url})

\* _deduplicate(_build_candidates(provider_name, icons_dir)), for each name
CandidateLists == [n \in Names |-> Deduplicate(BuildCandidates(n), {})]
Candidates(p) == CandidateLists[p]

\* The lists _deduplicate(_build_candidates(name, dir)) can return, for each
\* name, over the orders in which the set of roots can be iterated.
PossibleCandidateLists ==
    [n \in Names |->
        { Deduplicate(BuildCandidatesFrom(n, ds), {}) : ds \in CandidateDomainLists(n) }]

(***************************************************************************)
(* validate_image_content of download_icon.py.  A response body is a       *)
(* sequence of pieces, each a run of bytes: the signatures the validation  *)
(* looks for, in the spellings a server may send, one byte of something    *)
(* else, and a run of such bytes long enough to push what follows a PNG    *)
(* signature out of the first HEAD_BYTES bytes.                            *)
(***************************************************************************)
\* data[:1000]
HEAD_BYTES == 1000
PNG_MAGIC == "\\x89PNG\\r\\n\\x1a\\n"
JPEG_MAGIC == "\\xff\\xd8\\xff"
Filler == "x"
Padding == "x..."
Pieces == {PNG_MAGIC, JPEG_MAGIC, "<html", "<HTML", "<!DOCTYPE html", "<svg", "</svg>",
           Filler, Padding}
\* len(piece)
PieceLen(t) ==
    CASE t = PNG_MAGIC -> 8
      [] t = JPEG_MAGIC -> 3
      [] t \in {"<html", "<HTML"} -> 5
      [] t = "<!DOCTYPE html" -> 14
      [] t = "<svg" -> 4
      [] t = "</svg>" -> 6
      [] t = Filler -> 1
      [] t = Padding -> HEAD_BYTES - 8
\* piece.lower()
PieceLower(t) ==
    CASE t = "<HTML" -> "<html"
      [] t = "<!DOCTYPE html" -> "<!doctype html"
      [] OTHER -> t
\* len(data)
RECURSIVE ByteLen(_)
ByteLen(data) == IF data = << >> THEN 0 ELSE PieceLen(Head(data)) + ByteLen(Tail(data))
Bodies == UNION { [1..n -> Pieces] : n \in 0..MaxPieces }
\* The extensions of the target paths: those of the candidates, one the
\* validation has no signature for, and one in capitals.
TargetExts == {".svg", ".png", ".jpg", ".jpeg", ".webp", ".PNG"}
\* filename.lower(), as far as the extension goes
LowerExt(e) == IF e = ".PNG" THEN ".png" ELSE e

\* A search for the signature that does not lowercase the head.
InHeadExact(data, n, sig) ==
    \E i \in 1..Len(data) : data[i] = sig /\ ByteLen(SubSeq(data, 1, i)) <= n
\* sig in data[:n].lower(): a piece that lowercases to sig lies wholly
\* within the first n bytes.
InHeadLower(data, n, sig) ==
    \E i \in 1..Len(data) : PieceLower(data[i]) = sig /\ ByteLen(SubSeq(data, 1, i)) <= n
\* sig in data
Contains(data, sig) == \E i \in 1..Len(data) : data[i] = sig
\* data.startswith(sig)
StartsWith(data, sig) == data # << >> /\ data[1] = sig

validate_image_content(data, ext) ==
    IF data = << >> THEN FALSE
    ELSE IF InHeadLower(data, HEAD_BYTES, "<!doctype html")
            \/ InHeadLower(data, HEAD_BYTES, "<html") THEN FALSE
    ELSE IF LowerExt(ext) = ".svg"
    THEN (\E i \in 1..Len(data) : PieceLower(data[i]) = "<svg")
         /\ (\E i \in 1..Len(data) : PieceLower(data[i]) = "</svg>")
    ELSE IF LowerExt(ext) = ".png" THEN StartsWith(data, PNG_MAGIC)
    ELSE IF LowerExt(ext) \in {".jpg", ".jpeg"} THEN StartsWith(data, JPEG_MAGIC)
    ELSE TRUE

(***************************************************************************)
(* The downloader process: main of download_icon.py.                       *)
(***************************************************************************)
\* Whether candidate i may answer with a body that validates.
MayAnswer(i) == answering = "any" \/ i <= MaxLive

Step(i, file, result, raised, fetched, body) ==
    [idx |-> i, file |-> file, result |-> result, raised |-> raised, fetched |-> fetched,
     body |-> body]

\* resp.read() could not be called, or nothing was written.
NoBody == << >>
\* The bodies a server answers a candidate url with: nothing, an error page,
\* an image of each kind, a PNG signature followed by an error page, and
\* something else.
ResponseBodies ==
    { << >>, <<"<html">>, <<PNG_MAGIC>>, <<PNG_MAGIC, "<HTML">>, <<JPEG_MAGIC>>,
      <<"<svg", "</svg>">>, <<Filler>> }
\* The extension of the file name of a candidate of p.
ExtOfFile(p, f) == CHOOSE e \in Range(IMAGE_EXTENSIONS) : IconFile(p, e) = f
\* The bodies that candidate c of p may be answered with and that
\* validate_image_content(data, c["path"]) accepts.
ValidBodies(p, c) ==
    { b \in ResponseBodies : validate_image_content(b, ExtOfFile(p, c.filename)) }

\* A download_provider_icon that reports the first candidate, whichever
\* candidate it has written.
DownloadStepReportsFirst(p, i, t) ==
    LET cs == Candidates(p)
    IN IF i = 0 THEN {Step(1, "", NoEntry, FALSE, FALSE, NoBody), Step(0, "", NoEntry, TRUE, FALSE, NoBody)}
       ELSE IF i > Len(cs) THEN {Step(i, "", FailedEntry(p, t), FALSE, FALSE, NoBody)}
       ELSE {Step(i + 1, "", NoEntry, FALSE, TRUE, NoBody)}
            \cup (IF MayAnswer(i)
                  THEN { Step(i, cs[i].filename,
                              SuccessEntry(p, cs[1].filename, cs[1].url, t), FALSE, TRUE, b) :
                           b \in ValidBodies(p, cs[i]) }
                  ELSE {})

\* A download_provider_icon that may fetch a failing candidate again.
DownloadStepRetries(p, i, t) ==
    LET cs == Candidates(p)
    IN IF i = 0 THEN {Step(1, "", NoEntry, FALSE, FALSE, NoBody), Step(0, "", NoEntry, TRUE, FALSE, NoBody)}
       ELSE IF i > Len(cs) THEN {Step(i, "", FailedEntry(p, t), FALSE, FALSE, NoBody)}
       ELSE {Step(i + 1, "", NoEntry, FALSE, TRUE, NoBody), Step(i, "", NoEntry, FALSE, TRUE, NoBody)}
            \cup (IF MayAnswer(i)
                  THEN { Step(i, cs[i].filename,
                              SuccessEntry(p, cs[i].filename, cs[i].url, t), FALSE, TRUE, b) :
                           b \in ValidBodies(p, cs[i]) }
                  ELSE {})

\* A download_provider_icon whose _try_download writes the body to the path
\* before it validates it.
DownloadStepWritesFirst(p, i, t) ==
    LET cs == Candidates(p)
    IN IF i = 0 THEN {Step(1, "", NoEntry, FALSE, FALSE, NoBody), Step(0, "", NoEntry, TRUE, FALSE, NoBody)}
       ELSE IF i > Len(cs) THEN {Step(i, "", FailedEntry(p, t), FALSE, FALSE, NoBody)}
       ELSE {Step(i + 1, "", NoEntry, FALSE, TRUE, NoBody)}
            \cup { Step(i + 1, cs[i].filename, NoEntry, FALSE, TRUE, b) :
                     b \in ResponseBodies \ ValidBodies(p, cs[i]) }
            \cup (IF MayAnswer(i)
                  THEN { Step(i, cs[i].filename,
                              SuccessEntry(p, cs[i].filename, cs[i].url, t), FALSE, TRUE, b) :
                           b \in ValidBodies(p, cs[i]) }
                  ELSE {})

\* A download_provider_icon that returns the success entry of a candidate
\* without having written its file.
DownloadStepSkipsWrite(p, i, t) ==
    LET cs == Candidates(p)
    IN IF i = 0 THEN {Step(1, "", NoEntry, FALSE, FALSE, NoBody), Step(0, "", NoEntry, TRUE, FALSE, NoBody)}
       ELSE IF i > Len(cs) THEN {Step(i, "", FailedEntry(p, t), FALSE, FALSE, NoBody)}
       ELSE {Step(i + 1, "", NoEntry, FALSE, TRUE, NoBody)}
            \cup (IF MayAnswer(i)
                  THEN { Step(i, "", SuccessEntry(p, cs[i].filename, cs[i].url, t),
                              FALSE, TRUE, NoBody) }
                  ELSE {})

\* One step of download_provider_icon(p) at position i and time t, as the set
\* of its outcomes [idx, file, result, raised, fetched, body].  Position 0 is ensure_dir,
\* which is outside any try: it passes or raises.  Position i in 1..Len is
\* _try_download of candidate i: the fetch fails, the body is one that
\* validate_image_content rejects, or open(path, "wb") fails (next candidate,
\* nothing written); or the body is one it accepts and is written (success
\* entry of this candidate).  After the last candidate the
\* failed entry is returned.  (A write that fails after open has created the
\* file is not distinguished from a failed open.)
DownloadStep(p, i, t) ==
    LET cs == Candidates(p)
    IN IF i = 0 THEN {Step(1, "", NoEntry, FALSE, FALSE, NoBody), Step(0, "", NoEntry, TRUE, FALSE, NoBody)}
       ELSE IF i > Len(cs) THEN {Step(i, "", FailedEntry(p, t), FALSE, FALSE, NoBody)}
       ELSE {Step(i + 1, "", NoEntry, FALSE, TRUE, NoBody)}
            \cup (IF MayAnswer(i)
                  THEN { Step(i, cs[i].filename,
                              SuccessEntry(p, cs[i].filename, cs[i].url, t), FALSE, TRUE, b) :
                           b \in ValidBodies(p, cs[i]) }
                  ELSE {})

\* The sequential branch of main (one provider): a step of
\* download_provider_icon; its exception is logged and main ends without an
\* update; its result is new_results, with which update_metadata_atomic is
\* called.
Download(w) ==
    /\ wpc[w] = "download"
    /\ \E o \in DownloadStep(wprov[w], idx[w], now) :
         /\ files' = IF o.file = "" THEN files ELSE files \cup {o.file}
         /\ fbody' = IF o.file = "" THEN fbody ELSE WriteFile(fbody, o.file, o.body)
         /\ IF o.raised
            THEN /\ wpc' = [wpc EXCEPT ![w] = "idle"]
                 /\ wprov' = [wprov EXCEPT ![w] = ""]
                 /\ idx' = [idx EXCEPT ![w] = 0]
                 /\ wfetch' = [wfetch EXCEPT ![w] = << >>]
                 /\ IF w = Runner /\ argv # << >> THEN PoolReset ELSE UNCHANGED poolVars
                 /\ UNCHANGED <<batch, ucalls>>
            ELSE /\ wfetch' = IF o.fetched
                              THEN [wfetch EXCEPT ![w] = Append(wfetch[w], idx[w])]
                              ELSE wfetch
                 /\ IF o.result # NoEntry
                    THEN /\ batch' = [batch EXCEPT ![w] = (wprov[w] :> o.result)]
                         /\ wpc' = [wpc EXCEPT ![w] = "lock"]
                         /\ ucalls' = [ucalls EXCEPT ![w] = ucalls[w] + 1]
                         /\ UNCHANGED <<wprov, idx, poolVars>>
                    ELSE /\ idx' = [idx EXCEPT ![w] = o.idx]
                         /\ UNCHANGED <<batch, wpc, wprov, ucalls, poolVars>>
    /\ UNCHANGED <<doc, tmp, lock, now, current, updates, savedKeys, docAtLoad, seen,
                   overlap, fgVars, clearpc, auxVars, endVars>>

\* The command lines of the downloader: one name of Names, or several names
\* of Providers, repetitions included.
ArgvChoices ==
    { <<n>> : n \in Names } \cup UNION { [1..n -> Providers] : n \in 2..MaxArgv }

\* max_workers=len(providers)
PoolSize(a) == Len(a)

\* main, up to the branch on len(providers).
MainStart ==
    /\ wpc[Runner] = "idle"
    /\ argv = << >>
    /\ updates = 0
    /\ updates' = 1
    /\ \E a \in ArgvChoices :
         /\ argv' = a
         /\ IF Len(a) < 2
            THEN /\ wpc' = [wpc EXCEPT ![Runner] = "download"]
                 /\ wprov' = [wprov EXCEPT ![Runner] = a[1]]
                 /\ idx' = [idx EXCEPT ![Runner] = 0]
                 /\ UNCHANGED <<workers, tpc>>
            ELSE /\ wpc' = [wpc EXCEPT ![Runner] = "pool"]
                 /\ workers' = PoolSize(a)
                 /\ tpc' = [k \in Threads |-> IF k <= Len(a) THEN "run" ELSE "none"]
                 /\ UNCHANGED <<wprov, idx>>
    /\ UNCHANGED <<doc, tmp, lock, files, now, batch, current, savedKeys, docAtLoad, seen,
                   overlap, fgVars, clearpc, answering, tidx, tres, tfetch, new_results,
                   ucalls, wfetch, auxVars, endVars, fbody>>

\* Worker k of the pool: a step of download_provider_icon(argv[k]).
PoolWorker(k) ==
    /\ wpc[Runner] = "pool"
    /\ tpc[k] = "run"
    /\ k <= workers
    /\ \E o \in DownloadStep(argv[k], tidx[k], now) :
         /\ files' = IF o.file = "" THEN files ELSE files \cup {o.file}
         /\ fbody' = IF o.file = "" THEN fbody ELSE WriteFile(fbody, o.file, o.body)
         /\ tfetch' = IF o.fetched
                       THEN [tfetch EXCEPT ![k] = Append(tfetch[k], tidx[k])]
                       ELSE tfetch
         /\ IF o.raised
            THEN /\ tpc' = [tpc EXCEPT ![k] = "raised"]
                 /\ UNCHANGED <<tidx, tres>>
            ELSE IF o.result # NoEntry
            THEN /\ tpc' = [tpc EXCEPT ![k] = "done"]
                 /\ tres' = [tres EXCEPT ![k] = o.result]
                 /\ UNCHANGED tidx
            ELSE /\ tidx' = [tidx EXCEPT ![k] = o.idx]
                 /\ UNCHANGED <<tpc, tres>>
    /\ UNCHANGED <<doc, tmp, lock, now, wpc, batch, current, updates, savedKeys, docAtLoad,
                   seen, overlap, dlVars, fgVars, clearpc, answering, argv, workers,
                   new_results, ucalls, wfetch, auxVars, endVars>>

\* The as_completed loop takes a finished future: its result is stored under
\* result.get("provider"), its exception is logged.
Collect(k) ==
    /\ wpc[Runner] = "pool"
    /\ tpc[k] \in {"done", "raised"}
    /\ IF tpc[k] = "done"
       THEN /\ new_results' = IF tres[k].provider # ""
                              THEN Put(new_results, tres[k].provider, tres[k])
                              ELSE new_results
            /\ tpc' = [tpc EXCEPT ![k] = "collected"]
       ELSE /\ tpc' = [tpc EXCEPT ![k] = "logged"]
            /\ UNCHANGED new_results
    /\ UNCHANGED <<doc, tmp, lock, files, now, wpc, batch, current, updates, savedKeys,
                   docAtLoad, seen, overlap, dlVars, fgVars, clearpc, answering, argv,
                   workers, tidx, tres, tfetch, ucalls, wfetch, auxVars, endVars, fbody>>

\* A main that updates the store as soon as one future has been taken.
AcquisitionsFinishedEarly == \E k \in 1..workers : tpc[k] \in {"collected", "logged"}

\* The as_completed loop and the with block of the executor have ended.
AcquisitionsFinished == \A k \in 1..workers : tpc[k] \in {"collected", "logged"}

\* if new_results: update_metadata_atomic(cache_dir, new_results)
MainUpdate ==
    /\ wpc[Runner] = "pool"
    /\ AcquisitionsFinished
    /\ IF new_results # NoMap
       THEN /\ batch' = [batch EXCEPT ![Runner] = new_results]
            /\ wpc' = [wpc EXCEPT ![Runner] = "lock"]
            /\ ucalls' = [ucalls EXCEPT ![Runner] = ucalls[Runner] + 1]
            /\ UNCHANGED poolVars
       ELSE /\ wpc' = [wpc EXCEPT ![Runner] = "idle"]
            /\ PoolReset
            /\ UNCHANGED <<batch, ucalls>>
    /\ UNCHANGED <<doc, tmp, lock, files, now, current, updates, savedKeys, docAtLoad,
                   seen, overlap, dlVars, fgVars, clearpc, wfetch, auxVars, endVars, fbody>>

\* One run of the downloader from the command line, every candidate able to
\* answer, on a cache directory that is empty, that holds an earlier result,
\* or whose icons.json does not parse or is no JSON object.
InitDownload ==
    /\ \E p \in Providers :
         \/ doc \in {FileMissing, FilePartial, FileList} /\ files = {}
         \/ doc = FileOf(p :> SuccessEntry(p, IconFile(p, ".png"),
                                           ICON_BASE_URL(NoSpaces(p) \o ".png"), Epoch - 1))
              /\ files = {IconFile(p, ".png")}
    /\ tmp = FileMissing
    /\ lock = NoWriter
    /\ now = Epoch
    /\ wpc = [w \in Writers |-> "idle"]
    /\ batch = [w \in Writers |-> NoMap]
    /\ current = [w \in Writers |-> FileOf(NoMap)]
    /\ updates = 0
    /\ savedKeys = {}
    /\ docAtLoad = [w \in Writers |-> FileMissing]
    /\ seen = "nothing"
    /\ overlap = FALSE
    /\ answering = "any"
    /\ InitIdle

NextDownload ==
    \/ MainStart
    \/ \E w \in Writers : Download(w)
    \/ \E k \in Threads : PoolWorker(k)
    \/ \E k \in Threads : Collect(k)
    \/ MainUpdate
    \/ \E w \in Writers : StoreStep(w)

SpecDownload == InitDownload /\ [][NextDownload]_vars

(***************************************************************************)
(* The resolver: IconManager of workflow/icons.py.                         *)
(***************************************************************************)
ICONS_TTL == 43200 * 60
ICON_REFRESH_SECONDS == 180 * 24 * 60 * 60

\* The clock takes the values Epoch + d, d in Offsets.
Offsets == {0, ICONS_TTL - 1, ICONS_TTL, ICON_REFRESH_SECONDS + 1}

\* What a tampered icons.json may hold: a timestamp that is no number, and an
\* entry that is no dict (and is truthy).
NotANumber == 0 - 1
BadEntry == [nondict |-> TRUE]
IsDict(e) == ~Has(e, "nondict")

\* The load of _get_metadata: {} unless the file exists and parses.
LoadedMetadata(d) ==
    IF d.kind = "map" THEN d
    ELSE IF d.kind = "list" THEN FileList
    ELSE FileOf(NoMap)

\* The first existing <sanitized name><ext>, or "" for None.
RECURSIVE ProbeIconFile(_, _, _)
ProbeIconFile(p, fs, i) ==
    IF i > Len(IMAGE_EXTENSIONS) THEN ""
    ELSE IF IconFile(p, IMAGE_EXTENSIONS[i]) \in fs THEN IconFile(p, IMAGE_EXTENSIONS[i])
    ELSE ProbeIconFile(p, fs, i + 1)

\* _resolve_cached_path: the file name, "" for None, "raise" when meta.get
\* raises because meta is no dict.
ResolveCachedPath(p, meta, fs) ==
    IF meta # NoEntry
    THEN IF ~IsDict(meta) THEN "raise"
         ELSE IF /\ StatusOf(meta) \in {"success", "cached"}
                 /\ Has(meta, "filename")
                 /\ meta.filename # ""
                 /\ meta.filename \in fs
              THEN meta.filename
              ELSE ""
    ELSE ProbeIconFile(p, fs, 1)

\* A resolver that refreshes a success entry by its age alone.
ShouldDownloadIgnoresFile(meta, cached, t) ==
    IF meta = NoEntry THEN "yes"
    ELSE IF StatusOf(meta) = "failed"
         THEN IF t - meta.timestamp >= ICONS_TTL THEN "yes" ELSE "no"
         ELSE IF t - meta.timestamp > ICON_REFRESH_SECONDS THEN "yes" ELSE "no"

\* A resolver that retries a failed entry whatever its age.
ShouldDownloadRetriesFailed(meta, cached, t) ==
    IF meta = NoEntry \/ StatusOf(meta) = "failed" \/ cached = "" THEN "yes"
    ELSE IF t - meta.timestamp > ICON_REFRESH_SECONDS THEN "yes" ELSE "no"

\* A resolver that retries a failed entry only when its age is above the TTL.
ShouldDownloadStrictTtl(meta, cached, t) ==
    IF meta = NoEntry THEN "yes"
    ELSE IF StatusOf(meta) = "failed"
         THEN IF t - meta.timestamp > ICONS_TTL THEN "yes" ELSE "no"
         ELSE IF cached = "" \/ t - meta.timestamp > ICON_REFRESH_SECONDS THEN "yes" ELSE "no"

\* _should_download: "yes", "no", or "raise" when now - timestamp raises.
ShouldDownload(meta, cached, t) ==
    IF meta = NoEntry THEN "yes"
    ELSE LET ts == IF Has(meta, "timestamp") THEN meta.timestamp ELSE 0
         IN IF StatusOf(meta) = "failed"
            THEN IF ts = NotANumber THEN "raise"
                 ELSE IF t - ts >= ICONS_TTL THEN "yes" ELSE "no"
            ELSE IF StatusOf(meta) \in {"success", "cached"}
                 THEN IF cached = "" THEN "yes"
                      ELSE IF ts = NotANumber THEN "raise"
                      ELSE IF t - ts > ICON_REFRESH_SECONDS THEN "yes" ELSE "no"
                 ELSE "yes"

\* A resolver that does not look at the trigger set.
NotTriggeredUnchecked(p, trig) == TRUE

\* provider_name not in IconManager._triggered
NotTriggered(p, trig) == p \notin trig

\* The downloader that the foreground process spawns.
Child == "w1"

\* get_icon_path(p), up to its return or, when it spawns, up to the end of
\* the with block of trigger_batch_download, whose __exit__ waits for the child.
GetIconPath(p) ==
    /\ fgpc = "ready"
    /\ fgarg' = p
    /\ IF p = ""
       THEN /\ fgpath' = "default"
            /\ UNCHANGED <<metadata, triggered, fgpc, spawns, seen, wpc, wprov, idx, updates>>
       ELSE
       LET md == IF metadata.kind = "none" THEN LoadedMetadata(doc) ELSE metadata
           meta == IF md.kind = "map" /\ p \in DOMAIN md.map THEN md.map[p] ELSE NoEntry
           cached == ResolveCachedPath(p, meta, files)
           should == IF cached = "raise" THEN "raise" ELSE ShouldDownload(meta, cached, now)
       IN /\ metadata' = md
          /\ seen' = IF metadata.kind = "none" THEN doc.kind ELSE seen
          /\ IF md.kind = "list" \/ should = "raise"
             THEN \* AttributeError of list.get or of meta.get, TypeError of now - timestamp
                  /\ fgpc' = "raised"
                  /\ UNCHANGED <<fgpath, triggered, spawns, wpc, wprov, idx, updates>>
             ELSE IF should = "yes" /\ NotTriggered(p, triggered)
             THEN /\ triggered' = triggered \cup {p}
                  /\ spawns' = [spawns EXCEPT ![p] = spawns[p] + 1]
                  /\ \E started \in BOOLEAN :
                       IF started
                       THEN /\ wpc[Child] = "idle"
                            /\ updates < MaxUpdates
                            /\ updates' = updates + 1
                            /\ wpc' = [wpc EXCEPT ![Child] = "download"]
                            /\ wprov' = [wprov EXCEPT ![Child] = p]
                            /\ idx' = [idx EXCEPT ![Child] = 0]
                            /\ fgpc' = "waiting"
                            /\ fgpath' = IF cached # "" THEN cached ELSE "default"
                       ELSE \* Popen raises OSError
                            /\ fgpc' = "raised"
                            /\ UNCHANGED <<fgpath, wpc, wprov, idx, updates>>
             ELSE /\ fgpath' = IF cached # "" THEN cached ELSE "default"
                  /\ UNCHANGED <<fgpc, triggered, spawns, wpc, wprov, idx, updates>>
    /\ UNCHANGED <<doc, tmp, lock, files, now, batch, current, savedKeys,
                   docAtLoad, overlap, clearpc>>
    /\ UNCHANGED <<poolVars, ucalls, wfetch, auxVars, endVars, fbody>>

\* Popen.__exit__ returns once the child has terminated; get_icon_path returns.
GetIconPathReturn ==
    /\ fgpc = "waiting"
    /\ wpc[Child] \in {"idle", "crashed"}
    /\ fgpc' = "ready"
    /\ wpc' = [wpc EXCEPT ![Child] = "idle"]
    /\ UNCHANGED <<doc, tmp, lock, files, now, batch, current, updates, savedKeys,
                   docAtLoad, seen, overlap, dlVars, metadata, triggered, fgarg, fgpath,
                   spawns, clearpc>>
    /\ UNCHANGED <<poolVars, ucalls, wfetch, auxVars, endVars, fbody>>

\* The foreground process ends and the next invocation of the workflow
\* starts: the class attributes _metadata and _triggered are fresh.
FgNewProcess ==
    /\ fgpc \in {"ready", "raised"}
    /\ metadata' = MetaNone
    /\ triggered' = {}
    /\ spawns' = [p \in Providers |-> 0]
    /\ fgpc' = "ready"
    /\ fgarg' = ""
    /\ fgpath' = ""
    /\ UNCHANGED <<doc, tmp, lock, files, now, wpc, batch, current, updates, savedKeys,
                   docAtLoad, seen, overlap, dlVars, clearpc>>
    /\ UNCHANGED <<poolVars, ucalls, wfetch, auxVars, endVars, fbody>>

\* Time passes.
Tick ==
    /\ \E d \in Offsets : Epoch + d > now /\ now' = Epoch + d
    /\ UNCHANGED <<doc, tmp, lock, files, wpc, batch, current, updates, savedKeys,
                   docAtLoad, seen, overlap, dlVars, fgVars, clearpc>>
    /\ UNCHANGED <<poolVars, ucalls, wfetch, auxVars, endVars, fbody>>

\* execute_clear_cache("icons"): _remove_path(ICONS_DIR) ...
ClearIcons ==
    /\ clearpc = "idle"
    /\ files' = {}
    /\ fbody' = << >>
    /\ clearpc' = "icons_removed"
    /\ UNCHANGED <<doc, tmp, lock, now, wpc, batch, current, updates, savedKeys,
                   docAtLoad, seen, overlap, dlVars, fgVars>>
    /\ UNCHANGED <<poolVars, ucalls, wfetch, auxVars, endVars>>

\* ... and then _remove_path(icons.json); neither takes the lock.
ClearMetadata ==
    /\ clearpc = "icons_removed"
    /\ doc' = FileMissing
    /\ clearpc' = "idle"
    /\ UNCHANGED <<tmp, lock, files, now, wpc, batch, current, updates, savedKeys,
                   docAtLoad, seen, overlap, dlVars, fgVars>>
    /\ UNCHANGED <<poolVars, ucalls, wfetch, auxVars, endVars, fbody>>

InitResolver ==
    /\ doc = FileMissing
    /\ tmp = FileMissing
    /\ lock = NoWriter
    /\ files = {}
    /\ now = Epoch
    /\ wpc = [w \in Writers |-> "idle"]
    /\ batch = [w \in Writers |-> NoMap]
    /\ current = [w \in Writers |-> FileOf(NoMap)]
    /\ updates = 0
    /\ savedKeys = {}
    /\ docAtLoad = [w \in Writers |-> FileMissing]
    /\ seen = "nothing"
    /\ overlap = FALSE
    /\ answering = "first"
    /\ InitIdle

NextResolver ==
    \/ \E p \in Providers \cup {""} : GetIconPath(p)
    \/ GetIconPathReturn
    \/ FgNewProcess
    \/ \E w \in Writers : Download(w)
    \/ \E w \in Writers : StoreStep(w)
    \/ Tick
    \/ ClearIcons
    \/ ClearMetadata

SpecResolver == InitResolver /\ [][NextResolver]_vars

\* Documents and icon directories that were not written by this program:
\* unparseable, no JSON object, entries that are no dict, that lack fields or
\* whose timestamp is no number.
TamperedMaps ==
    { ("Ac/me" :> BadEntry),
      ("Ac/me" :> [provider |-> "Ac/me", status |-> "failed", timestamp |-> NotANumber]),
      ("Ac/me" :> [provider |-> "Ac/me", status |-> "success", filename |-> "Acme.svg",
                  timestamp |-> NotANumber]),
      ("Ac/me" :> [provider |-> "Ac/me", status |-> "success"]),
      ("Ac/me" :> [provider |-> "Ac/me"]) }
TamperedDocs == {FileMissing, FilePartial, FileList} \cup { FileOf(m) : m \in TamperedMaps }

InitTampered ==
    /\ doc \in TamperedDocs
    /\ tmp = FileMissing
    /\ lock = NoWriter
    /\ files \in {{}, {"Acme.svg"}}
    /\ now = Epoch
    /\ wpc = [w \in Writers |-> "idle"]
    /\ batch = [w \in Writers |-> NoMap]
    /\ current = [w \in Writers |-> FileOf(NoMap)]
    /\ updates = 0
    /\ savedKeys = {}
    /\ docAtLoad = [w \in Writers |-> FileMissing]
    /\ seen = "nothing"
    /\ overlap = FALSE
    /\ answering = "first"
    /\ InitIdle

SpecTampered == InitTampered /\ [][NextResolver]_vars

(***************************************************************************)
(* _try_download of download_icon.py, one call with any response body.     *)
(***************************************************************************)
\* _try_download(url, path, context) where the server answers with the body
\* data and path is the icon file of "Qwen" with extension ext: the body is
\* validated and, when valid, written to path; open(path, "wb") may fail,
\* which the call swallows.  One call is followed, on an icons directory
\* that starts empty.
TryDownload(data, ext) ==
    /\ ~resp.called
    /\ \E wrote \in (IF validate_image_content(data, ext) THEN {TRUE, FALSE} ELSE {FALSE}) :
         /\ resp' = [body |-> data, target |-> ext,
                     valid |-> validate_image_content(data, ext),
                     wrote |-> wrote, called |-> TRUE]
         /\ files' = IF wrote THEN files \cup {IconFile("Qwen", ext)} ELSE files
         /\ fbody' = IF wrote THEN WriteFile(fbody, IconFile("Qwen", ext), data) ELSE fbody
    /\ UNCHANGED <<doc, tmp, lock, now, wpc, batch, current, updates, savedKeys, docAtLoad,
                   seen, overlap, dlVars, fgVars, clearpc, poolVars, ucalls, wfetch,
                   cfile, cread, endVars>>

InitFetch == InitStore
NextFetch == \E data \in Bodies, ext \in TargetExts : TryDownload(data, ext)
SpecFetch == InitFetch /\ [][NextFetch]_vars

(***************************************************************************)
(* CacheManager of workflow/cache.py: one file of the cache directory.     *)
(***************************************************************************)
\* The ttl arguments of read: a negative one, zero, and positive ones.
Ttls == (0 - 1)..MaxAge
\* A staleness test that lets a file of age exactly ttl pass.
ExpiredAfter(ttl, age) == 0 <= ttl /\ ttl < age
\* 0 <= ttl <= time.time() - os.path.getmtime(path)
Expired(ttl, age) == 0 <= ttl /\ ttl <= age

\* CacheManager.write: the file is replaced by a complete one, or the write
\* fails and the file stays as it is.
CacheWrite ==
    /\ \/ cfile' = [kind |-> "json", mtime |-> now]
       \/ UNCHANGED cfile
    /\ UNCHANGED <<doc, tmp, lock, files, now, wpc, batch, current, updates, savedKeys,
                   docAtLoad, seen, overlap, dlVars, fgVars, clearpc, poolVars, ucalls,
                   wfetch, resp, cread, endVars, fbody>>

\* Something other than the workflow leaves a file that is not JSON.
CacheCorrupt ==
    /\ cfile' = [kind |-> "garbage", mtime |-> now]
    /\ UNCHANGED <<doc, tmp, lock, files, now, wpc, batch, current, updates, savedKeys,
                   docAtLoad, seen, overlap, dlVars, fgVars, clearpc, poolVars, ucalls,
                   wfetch, resp, cread, endVars, fbody>>

\* CacheManager.read(filename, ttl): None when there is no file, when the
\* file is stale, and when json.load raises; the data otherwise.
CacheRead(ttl) ==
    /\ cread' = [ttl |-> ttl, age |-> now - cfile.mtime, kind |-> cfile.kind, called |-> TRUE,
                 result |-> IF cfile.kind = "missing" THEN "None"
                            ELSE IF Expired(ttl, now - cfile.mtime) THEN "None"
                            ELSE IF cfile.kind = "garbage" THEN "None"
                            ELSE "data"]
    /\ UNCHANGED <<doc, tmp, lock, files, now, wpc, batch, current, updates, savedKeys,
                   docAtLoad, seen, overlap, dlVars, fgVars, clearpc, poolVars, ucalls,
                   wfetch, resp, cfile, endVars, fbody>>

\* A second passes.
CacheTick ==
    /\ now < Epoch + MaxAge
    /\ now' = now + 1
    /\ UNCHANGED <<doc, tmp, lock, files, wpc, batch, current, updates, savedKeys,
                   docAtLoad, seen, overlap, dlVars, fgVars, clearpc, poolVars, ucalls,
                   wfetch, auxVars, endVars, fbody>>

InitCache ==
    /\ doc = FileMissing
    /\ tmp = FileMissing
    /\ lock = NoWriter
    /\ files = {}
    /\ now = Epoch
    /\ wpc = [w \in Writers |-> "idle"]
    /\ batch = [w \in Writers |-> NoMap]
    /\ current = [w \in Writers |-> FileOf(NoMap)]
    /\ updates = 0
    /\ savedKeys = {}
    /\ docAtLoad = [w \in Writers |-> FileMissing]
    /\ seen = "nothing"
    /\ overlap = FALSE
    /\ answering = "first"
    /\ InitIdle
NextCache == CacheWrite \/ CacheCorrupt \/ (\E ttl \in Ttls : CacheRead(ttl)) \/ CacheTick
SpecCache == InitCache /\ [][NextCache]_vars

(***************************************************************************)
(* The endpoints cache: APIClient.get_endpoints of workflow/api.py and     *)
(* the third step of refresh_all of workflow/commands.py.  Model ids and   *)
(* file names are spelled out, character by character.                     *)
(***************************************************************************)
\* The characters of an author or a slug: a letter and the underscore.
PartChars == {"a", "_"}
Parts == UNION { [1..n -> PartChars] : n \in 1..MaxPart }
\* Model ids: author/slug
ModelIds == { au \o <<"/">> \o sl : au \in Parts, sl \in Parts }
DotJson == <<".", "j", "s", "o", "n">>

\* s.replace(old, new): every occurrence of the character
ReplaceAll(cs, old, new) == [i \in 1..Len(cs) |-> IF cs[i] = old THEN new ELSE cs[i]]
\* s.replace(old, new, 1): the first occurrence of the character
ReplaceFirst(cs, old, new) ==
    [i \in 1..Len(cs) |->
        IF cs[i] = old /\ \A j \in 1..(i - 1) : cs[j] # old THEN new ELSE cs[i]]

\* cache_file without its directory: model_id.replace("/", "_") + ".json"
CacheFileOf(model_id) == ReplaceAll(model_id, "/", "_") \o DotJson
\* model_id = filename[:-5].replace("_", "/", 1)
ModelIdOf(filename) == ReplaceFirst(SubSeq(filename, 1, Len(filename) - 5), "_", "/")

\* APIClient.get_endpoints(model_id) as the workflow calls it (force is
\* False): a cache file that is there and fresh is returned as it is;
\* otherwise the endpoints are fetched, which may raise, written to the cache
\* file and returned.
GetEndpoints(model_id) ==
    LET f == CacheFileOf(model_id)
    IN /\ f \in DOMAIN efiles \/ Cardinality(DOMAIN efiles) < MaxCached
       /\ \/ /\ f \in DOMAIN efiles
             /\ eget' = [id |-> model_id, file |-> f, returned |-> efiles[f], called |-> TRUE]
             /\ UNCHANGED efiles
          \/ /\ efiles' = [g \in DOMAIN efiles \cup {f} |-> IF g = f THEN model_id ELSE efiles[g]]
             /\ eget' = [id |-> model_id, file |-> f, returned |-> model_id, called |-> TRUE]
          \/ /\ eget' = [id |-> model_id, file |-> f, returned |-> << >>, called |-> TRUE]
             /\ UNCHANGED efiles
       /\ UNCHANGED <<doc, tmp, lock, files, now, wpc, batch, current, updates, savedKeys,
                      docAtLoad, seen, overlap, dlVars, fgVars, clearpc, poolVars, ucalls,
                      wfetch, auxVars, fbody, rederived>>

\* The third step of refresh_all: for every file of the endpoints directory
\* that ends with .json, the model id is derived from the file name and
\* get_endpoints(model_id, force=True) is called, which fetches, writes the
\* cache file of that id and returns, or raises, which is swallowed.  (The
\* first two steps refresh models.json and go through get_icon_path.)
RefreshAll ==
    /\ efiles # << >>
    /\ \E fetched \in SUBSET DOMAIN efiles :
         efiles' = [f \in DOMAIN efiles \cup { CacheFileOf(ModelIdOf(g)) : g \in fetched } |->
                      IF \E g \in fetched : CacheFileOf(ModelIdOf(g)) = f
                      THEN ModelIdOf(CHOOSE g \in fetched : CacheFileOf(ModelIdOf(g)) = f)
                      ELSE efiles[f]]
    /\ rederived' = { [file |-> f, id |-> ModelIdOf(f), held |-> efiles[f],
                       rewrites |-> CacheFileOf(ModelIdOf(f))] :
                         f \in { g \in DOMAIN efiles : EndsWith(g, DotJson) } }
    /\ UNCHANGED <<doc, tmp, lock, files, now, wpc, batch, current, updates, savedKeys,
                   docAtLoad, seen, overlap, dlVars, fgVars, clearpc, poolVars, ucalls,
                   wfetch, auxVars, fbody, eget>>

InitEndpoints == InitStore
NextEndpoints == (\E model_id \in ModelIds : GetEndpoints(model_id)) \/ RefreshAll
SpecEndpoints == InitEndpoints /\ [][NextEndpoints]_vars

(***************************************************************************)
(* Properties of the metadata store, checked under SpecStore.              *)
(***************************************************************************)
\* What process w found in the store, and whether its save has replaced it.
OldOf(w) == load_metadata(docAtLoad[w]).map
Saved(w) == wpc[w] = "saved" /\ doc.kind = "map"

\* C1: under any interleaving of update_metadata_atomic calls of independent
\* processes, the persisted document holds an entry for every provider key of
\* every batch whose save succeeded: no batch's keys are dropped by another.
C1_NoDroppedKeys ==
    savedKeys # {} => (doc.kind = "map" /\ savedKeys \subseteq DOMAIN doc.map)

\* Two overlapping calls with different keys have both returned.
C1_Witness ==
    /\ overlap
    /\ \A w \in Writers : wpc[w] = "idle"
    /\ savedKeys = Providers
    /\ doc.kind = "map" /\ DOMAIN doc.map = Providers

\* C2: icons.json never holds a partially written document and no lock-free
\* reader opens one; and while a writer is between its load and its rename,
\* where a crash may strike, icons.json is still the document it loaded.
C2_NoTornDocument ==
    /\ doc.kind # "partial"
    /\ seen # "partial"
    /\ \A w \in Writers :
         wpc[w] \in {"merge", "save_open", "save_dump", "save_replace"}
            => doc = docAtLoad[w]

\* A writer crashed after it started writing the temp file; the document is
\* a complete one and a reader has read it.
C2_Witness ==
    /\ \E w \in Writers : wpc[w] = "crashed"
    /\ tmp.kind = "partial"
    /\ doc.kind = "map"
    /\ seen = "map"

\* C3: a failed entry merged over a success entry leaves status, filename and
\* url (every field but timestamp) as they were, sets timestamp to the incoming
\* one, and changes no entry of a provider that is not in the batch.
C3_FailedOverSuccess ==
    \A w \in Writers : Saved(w) =>
        \A p \in DOMAIN batch[w] :
            (/\ batch[w][p].status = "failed"
             /\ p \in DOMAIN OldOf(w)
             /\ OldOf(w)[p].status = "success")
            => /\ doc.map[p] = [OldOf(w)[p] EXCEPT !.timestamp = batch[w][p].timestamp]
               /\ doc.map[p].timestamp # OldOf(w)[p].timestamp
               /\ \A q \in DOMAIN OldOf(w) \ DOMAIN batch[w] : doc.map[q] = OldOf(w)[q]

\* A failed entry has been saved over a success entry, beside another
\* provider's entry.
C3_Witness ==
    \E w \in Writers : Saved(w) /\
        \E p \in DOMAIN batch[w] :
            /\ batch[w][p].status = "failed"
            /\ p \in DOMAIN OldOf(w)
            /\ OldOf(w)[p].status = "success"
            /\ DOMAIN OldOf(w) \ DOMAIN batch[w] # {}

C5_CachedKeepsUrl ==
    \A w \in Writers : Saved(w) =>
        \A p \in DOMAIN batch[w] :
            (batch[w][p].status = "cached" /\ ~Has(batch[w][p], "url"))
            => IF p \in DOMAIN OldOf(w) /\ Has(OldOf(w)[p], "url")
               THEN doc.map[p] = [x \in DOMAIN batch[w][p] \cup {"url"} |->
                                    IF x = "url" THEN OldOf(w)[p].url ELSE batch[w][p][x]]
               ELSE doc.map[p] = batch[w][p]

\* A cached entry without url has been saved over an entry with a url.
C5_Witness ==
    \E w \in Writers : Saved(w) /\
        \E p \in DOMAIN batch[w] :
            /\ batch[w][p].status = "cached" /\ ~Has(batch[w][p], "url")
            /\ p \in DOMAIN OldOf(w) /\ Has(OldOf(w)[p], "url")
            /\ Has(doc.map[p], "url")

\* C16: update_metadata_atomic releases the lock on every exit path, the
\* raising ones included: a process that is outside the call does not hold
\* the lock, a holder eventually releases it, and a process waiting for the
\* lock eventually holds it.
C16_LockReleasedOnEveryPath ==
    /\ [](\A w \in Writers : wpc[w] \in {"idle", "crashed"} => lock # w)
    /\ \A w \in Writers : (lock = w) ~> (lock # w)
    /\ \A w \in Writers : (wpc[w] = "lock") ~> (lock = w)

\* A process waits for the lock while the holder is on the exit path of a
\* save that failed.
C16_Witness ==
    \E w, v \in Writers :
        /\ wpc[w] = "lock" /\ lock = v /\ v # w
        /\ wpc[v] = "unlock"

\* C17: at most one process is between load_metadata and the rename of
\* save_metadata, every such process holds the lock, and icons.json.tmp is
\* open for writing in at most one process.
C17_CriticalSectionExclusive ==
    /\ \A w \in Writers :
         wpc[w] \in {"load", "merge", "save_open", "save_dump", "save_replace"} => lock = w
    /\ Cardinality({ w \in Writers :
         wpc[w] \in {"merge", "save_open", "save_dump", "save_replace"} }) <= 1
    /\ Cardinality({ w \in Writers : wpc[w] = "save_dump" }) <= 1

\* One process has icons.json.tmp open while the other is blocked in flock.
C17_Witness ==
    \E w, v \in Writers :
        /\ wpc[w] = "save_dump" /\ tmp = FilePartial
        /\ wpc[v] = "lock" /\ v # w

(***************************************************************************)
(* Properties of the resolver, checked under SpecResolver and, where the   *)
(* claim names documents this program does not write, under SpecTampered.  *)
(***************************************************************************)
\* The entry of provider p in the metadata the foreground process holds.
MetaOf(md, p) == IF md.kind = "map" /\ p \in DOMAIN md.map THEN md.map[p] ELSE NoEntry

\* C6: a get_icon_path call that has spawned the downloader returns without
\* waiting for it: while the call is in trigger_batch_download, its return is
\* enabled whatever the downloader is doing.
C6_ReturnsWithoutWaiting == fgpc = "waiting" => ENABLED GetIconPathReturn

\* C7: get_icon_path never raises, whatever icons.json and the icons directory
\* hold and whether or not the spawn succeeds, and the path it returns is the
\* default icon or a file that exists in the icons directory.
C7_ResolveNeverRaises ==
    [][ /\ fgpc' # "raised"
        /\ \A p \in Providers \cup {""} :
             GetIconPath(p) => (fgpath' = "default" \/ fgpath' \in files) ]_vars

\* C8: in one foreground process the downloader is spawned at most once per
\* provider, and a provider is in the trigger set exactly when a spawn was
\* requested for it in this process.
C8_SpawnOncePerProvider ==
    \A p \in Providers : spawns[p] <= 1 /\ (p \in triggered <=> spawns[p] = 1)

\* Both providers have been triggered once in the same process, which holds
\* no entry for either (so _should_download is still true for both).
C8_Witness ==
    /\ fgpc = "ready"
    /\ triggered = Providers
    /\ \A p \in Providers : spawns[p] = 1 /\ MetaOf(metadata, p) = NoEntry

\* C9: for a success or cached entry, a call whose entry names a file that is
\* missing triggers a refresh whatever the timestamp (the provider is in the
\* trigger set afterwards); a call whose file exists and whose entry is
\* younger than ICON_REFRESH_SECONDS requests no spawn.
C9_RefreshGating ==
    [][ \A p \in Providers :
          (/\ GetIconPath(p)
           /\ fgpc' # "raised"
           /\ StatusOf(MetaOf(metadata', p)) \in {"success", "cached"})
          => LET meta == MetaOf(metadata', p)
                 present == Has(meta, "filename") /\ meta.filename \in files
             IN /\ ~present => p \in triggered'
                /\ (present /\ Has(meta, "timestamp")
                            /\ now - meta.timestamp < ICON_REFRESH_SECONDS)
                      => (spawns' = spawns /\ triggered' = triggered
                            /\ fgpath' = meta.filename) ]_vars

\* A call has returned the file of a success entry that is younger than the
\* refresh interval, without triggering anything.
C9_Witness ==
    \E p \in Providers :
        /\ fgpc = "ready" /\ fgarg = p /\ triggered = {}
        /\ StatusOf(MetaOf(metadata, p)) = "success"
        /\ fgpath = MetaOf(metadata, p).filename
        /\ fgpath \in files
        /\ now - MetaOf(metadata, p).timestamp < ICON_REFRESH_SECONDS
        /\ now - MetaOf(metadata, p).timestamp > 0

\* What _should_download answers to a foreground process that starts at time
\* t and finds document d and the icon files fs.
FreshProcessSpawns(p, d, fs, t) ==
    LET meta == MetaOf(LoadedMetadata(d), p)
    IN ShouldDownload(meta, ResolveCachedPath(p, meta, fs), t) = "yes"

\* The times of the clock that lie within the negative-result TTL of ts.
WithinTtl(ts) == { t \in { Epoch + d : d \in Offsets } : t >= now /\ t - ts < ICONS_TTL }

\* C10 as claimed: after a saved downloader run for p in which every candidate
\* failed, the entry of p has status failed and no foreground process started
\* within ICONS_TTL of the attempt spawns a downloader for p, whatever entry p
\* had before.
C10_FailedRunStopsRetries ==
    \A w \in Writers : Saved(w) =>
        \A p \in DOMAIN batch[w] :
            batch[w][p].status = "failed"
            => /\ StatusOf(doc.map[p]) = "failed"
               /\ \A t \in WithinTtl(batch[w][p].timestamp) :
                     ~FreshProcessSpawns(p, doc, files, t)

\* C10 as amended: the same, for a provider whose entry before the run did
\* not have status success; and a call of a foreground process that holds a
\* failed entry younger than ICONS_TTL requests no spawn.
C10_State ==
    \A w \in Writers : Saved(w) =>
        \A p \in DOMAIN batch[w] :
            (/\ batch[w][p].status = "failed"
             /\ ~(p \in DOMAIN OldOf(w) /\ StatusOf(OldOf(w)[p]) = "success"))
            => /\ doc.map[p] = batch[w][p]
               /\ \A t \in WithinTtl(batch[w][p].timestamp) :
                     ~FreshProcessSpawns(p, doc, files, t)
C10_Calls ==
    \A p \in Providers :
        (/\ GetIconPath(p)
         /\ StatusOf(MetaOf(metadata', p)) = "failed"
         /\ now - MetaOf(metadata', p).timestamp < ICONS_TTL)
        => (spawns' = spawns /\ triggered' = triggered /\ fgpc' = "ready")
C10_FailedRunStopsRetriesUnlessSuccess == []C10_State /\ [][C10_Calls]_vars

\* A later foreground process has loaded the failed entry of a run and,
\* within the TTL, has returned the default icon without triggering anything.
C10_Witness ==
    \E p \in Providers :
        /\ fgpc = "ready" /\ fgarg = p /\ triggered = {}
        /\ StatusOf(MetaOf(metadata, p)) = "failed"
        /\ fgpath = "default"
        /\ now - MetaOf(metadata, p).timestamp > 0
        /\ now - MetaOf(metadata, p).timestamp < ICONS_TTL

\* C11: once a downloader has succeeded for p (the store holds a success
\* entry for p and the file it names is in the icons directory), every
\* get_icon_path(p) that returns, in the spawning process or a later one,
\* returns that file, whatever entry the process holds in memory.
C11_PicksUpCachedFile ==
    [][ \A p \in Providers :
          (/\ GetIconPath(p)
           /\ fgpc' # "raised"
           /\ StatusOf(MetaOf(doc, p)) = "success"
           /\ MetaOf(doc, p).filename \in files)
          => fgpath' = MetaOf(doc, p).filename ]_vars

\* C12: with a failed entry of timestamp t in memory, a get_icon_path call at
\* time now requests a spawn only if now - t > ICONS_TTL; when now - t is at
\* most ICONS_TTL nothing is spawned.
C12_FailedRetryStrictlyAfterTtl ==
    [][ \A p \in Providers :
          (/\ GetIconPath(p)
           /\ StatusOf(MetaOf(metadata', p)) = "failed"
           /\ now - MetaOf(metadata', p).timestamp <= ICONS_TTL)
          => (spawns' = spawns /\ triggered' = triggered) ]_vars

\* C12 as amended: with a failed entry of timestamp t in memory, a call at
\* time now requests a spawn (once per process) when now - t >= ICONS_TTL,
\* the boundary included, and spawns nothing when now - t < ICONS_TTL.
C12_FailedRetryFromTtl ==
    [][ \A p \in Providers :
          (/\ GetIconPath(p)
           /\ StatusOf(MetaOf(metadata', p)) = "failed")
          => LET age == now - MetaOf(metadata', p).timestamp
             IN /\ age < ICONS_TTL => (spawns' = spawns /\ triggered' = triggered)
                /\ age >= ICONS_TTL => p \in triggered' ]_vars

\* A call has found a failed entry whose age is exactly ICONS_TTL and has
\* spawned the downloader.
C12_Witness ==
    \E p \in Providers :
        /\ fgpc = "waiting" /\ fgarg = p /\ spawns[p] = 1
        /\ StatusOf(MetaOf(metadata, p)) = "failed"
        /\ now - MetaOf(metadata, p).timestamp = ICONS_TTL

(***************************************************************************)
(* Properties of the downloader, checked under SpecDownload.               *)
(***************************************************************************)
\* C13: download_provider_icon tries the candidates in generator order and
\* stops at the first one that is fetched and validates: each step moves to
\* the next position or ends the search; the step that succeeds at position i
\* writes the file of candidate i and returns the success entry with the url
\* and filename of candidate i; after it no further candidate is tried.
C13_Sequential ==
    \A w \in Writers :
        (wpc[w] = "download" /\ <<wpc'[w], idx'[w]>> # <<wpc[w], idx[w]>>) =>
            \/ /\ wpc'[w] = "download" /\ idx'[w] = idx[w] + 1 /\ files' = files
            \/ /\ wpc'[w] = "lock" /\ idx'[w] = idx[w]
               /\ LET c == Candidates(wprov[w])
                      e == batch'[w][wprov[w]]
                  IN IF idx[w] <= Len(c)
                     THEN /\ e = SuccessEntry(wprov[w], c[idx[w]].filename, c[idx[w]].url, now)
                          /\ files' = files \cup {c[idx[w]].filename}
                     ELSE e.status = "failed" /\ files' = files
            \/ wpc'[w] = "idle" /\ idx[w] = 0
C13_Pooled ==
    \A k \in Threads :
        IF tpc[k] = "run"
        THEN \/ <<tpc'[k], tidx'[k]>> = <<tpc[k], tidx[k]>>
             \/ tpc'[k] = "run" /\ tidx'[k] = tidx[k] + 1 /\ files' = files
             \/ /\ tpc'[k] = "done" /\ tidx'[k] = tidx[k]
                /\ LET c == Candidates(argv[k])
                   IN IF tidx[k] <= Len(c)
                      THEN /\ tres'[k] = SuccessEntry(argv[k], c[tidx[k]].filename,
                                                      c[tidx[k]].url, now)
                           /\ c[tidx[k]].filename \in files'
                      ELSE tres'[k].status = "failed"
             \/ tpc'[k] = "raised" /\ tidx[k] = 0
        ELSE tpc[k] \in {"done", "collected"} => (tidx'[k] = tidx[k] \/ argv' = << >>)
\* C13, for the sequential branch of main and for the workers of the pool.
C13_StopsAtFirstSuccess == [][C13_Sequential /\ C13_Pooled]_vars

\* A run has returned the success entry of a candidate that is not the first,
\* after the candidates before it failed.
C13_Witness ==
    /\ wpc[Runner] = "lock" /\ idx[Runner] = 3
    /\ batch[Runner][wprov[Runner]].status = "success"
    /\ batch[Runner][wprov[Runner]].url = Candidates(wprov[Runner])[3].url
    /\ Candidates(wprov[Runner])[3].filename \in files

\* C14: download_provider_icon never raises, whichever step fails (the
\* creation of the icons directory included): it returns a success entry or,
\* when every candidate fails, a failed entry without filename and url.
C14_DownloadNeverRaises ==
    [][ /\ \A w \in Writers :
             wpc[w] = "download" =>
                 /\ wpc'[w] \in {"download", "lock"}
                 /\ wpc'[w] = "lock" =>
                        LET e == batch'[w][wprov[w]]
                        IN e.status = "success"
                           \/ (e.status = "failed" /\ ~Has(e, "filename") /\ ~Has(e, "url"))
        /\ \A k \in Threads : tpc[k] = "run" => tpc'[k] \in {"run", "done"} ]_vars

\* The positions of a process inside update_metadata_atomic.
InUpdate == {"lock", "load", "merge", "save_open", "save_dump", "save_replace",
             "saved", "unlock"}

\* C19: one downloader invocation calls update_metadata_atomic at most once,
\* only when every acquisition has finished, with one entry per distinct
\* provider whose acquisition returned a result; one provider name runs
\* without a pool, several names run with one worker per name.
C19_OneBatchedUpdate ==
    /\ \A w \in Writers : ucalls[w] <= 1
    /\ argv # << >> =>
         /\ Len(argv) = 1 => workers = 0
         /\ Len(argv) >= 2 => workers = Len(argv)
         /\ (wpc[Runner] \in InUpdate /\ workers = 0) =>
                /\ ucalls[Runner] = 1
                /\ DOMAIN batch[Runner] = {argv[1]}
         /\ (wpc[Runner] \in InUpdate /\ workers > 0) =>
                /\ ucalls[Runner] = 1
                /\ \A k \in 1..Len(argv) : tpc[k] \in {"collected", "logged"}
                /\ DOMAIN batch[Runner] = { argv[k] : k \in { j \in 1..Len(argv) : tpc[j] = "collected" } }
                /\ \A p \in DOMAIN batch[Runner] :
                     \E k \in 1..Len(argv) : argv[k] = p /\ tpc[k] = "collected"
                                              /\ batch[Runner][p] = tres[k]

\* A pooled run with the same provider named twice, one of whose
\* acquisitions raised, has saved its single entry.
C19_Witness ==
    /\ wpc[Runner] = "saved" /\ workers = 2 /\ argv[1] = argv[2]
    /\ \E k \in 1..2 : tpc[k] = "logged"
    /\ Cardinality(DOMAIN batch[Runner]) = 1
    /\ doc.kind = "map" /\ argv[1] \in DOMAIN doc.map

\* The position of the first candidate of list cs that has url u.
FirstAt(cs, u) == CHOOSE i \in 1..Len(cs) : cs[i].url = u /\ \A j \in 1..(i - 1) : cs[j].url # u

\* C20: the deduplicated list has no url twice, holds every generated url,
\* each with the filename and category of its first occurrence, and keeps
\* the order of the first occurrences; it is the list a running downloader
\* walks through.
C20_DeduplicateKeepsFirst ==
    \A n \in Names :
        LET b == BuildCandidates(n)
            c == Deduplicate(b, {})
        IN /\ \A i, j \in 1..Len(c) : c[i].url = c[j].url => i = j
           /\ { c[i].url : i \in 1..Len(c) } = { b[i].url : i \in 1..Len(b) }
           /\ \A i \in 1..Len(c) : c[i] = b[FirstAt(b, c[i].url)]
           /\ \A i, j \in 1..Len(c) : i < j => FirstAt(b, c[i].url) < FirstAt(b, c[j].url)
           /\ \A w \in Writers : wprov[w] = n => (Candidates(n) = c /\ idx[w] <= Len(c) + 1)

\* The downloader is at the last candidate of a name for which a generated
\* url was dropped that is not next to its first occurrence.
C20_Witness ==
    /\ wpc[Runner] = "download"
    /\ wprov[Runner] = "Arcee AI"
    /\ idx[Runner] = Len(Candidates("Arcee AI"))
    /\ Len(Candidates("Arcee AI")) < Len(BuildCandidates("Arcee AI"))
    /\ \E i, j \in 1..Len(BuildCandidates("Arcee AI")) :
         j > i + 1 /\ BuildCandidates("Arcee AI")[i].url = BuildCandidates("Arcee AI")[j].url

\* save_metadata has failed in process w (the merge did not raise).
SaveFailed(w) == wpc[w] = "unlock" /\ ~MergeRaises(current[w], batch[w])

\* C15: when icons.json is missing, unparseable or no JSON object at the load
\* of an update_metadata_atomic call, the call treats it as empty: once the
\* call is past its save (and the save itself did not fail), icons.json holds
\* exactly the incoming entries.
C15_CorruptDocumentIsEmpty ==
    \A w \in Writers :
        (/\ wpc[w] \in {"saved", "unlock"}
         /\ docAtLoad[w].kind \in {"missing", "partial", "list"}
         /\ ~SaveFailed(w))
        => doc = FileOf(batch[w])

\* C18: every step that changes icons.json or the icons directory is a step
\* of update_metadata_atomic taken by the process that holds the lock.
C18_MutationsUnderLock ==
    [][ (doc' # doc \/ files' # files)
        => \E w \in Writers : lock = w /\ StoreStep(w) ]_vars

(***************************************************************************)
(* Properties of the candidate generator.                                  *)
(***************************************************************************)
\* The provider names a download_provider_icon call is working on.
Acquiring == { wprov[w] : w \in Writers } \cup { argv[k] : k \in 1..Len(argv) }

\* C21: candidate generation is deterministic: for every provider name a
\* download_provider_icon call is working on, whichever order the set of
\* roots is iterated in, _deduplicate(_build_candidates(name, dir)) is one
\* and the same ordered list, the one the call walks through.
C21_CandidatesDeterministic ==
    \A n \in Acquiring \cap Names : PossibleCandidateLists[n] = {Candidates(n)}

\* A call is fetching a domain-heuristic candidate of a name that has two roots.
C21_Witness ==
    \E w \in Writers :
        /\ wpc[w] = "download"
        /\ wprov[w] = "NousResearch"
        /\ Cardinality(Roots(CleanName("NousResearch"))) = 2
        /\ idx[w] \in 1..Len(Candidates("NousResearch"))
        /\ Candidates("NousResearch")[idx[w]].category = "domain-heuristic"

\* C22 as stated: for "DeepCogito Labs" the only root is deepcogitolabs and
\* the domains are exactly https://deepcogitolabs.ai, .com, .io.
C22_DeepCogitoSingleRoot ==
    \A n \in Acquiring :
        n = "DeepCogito Labs" =>
            /\ Len(SortedRoots[n]) = 1
            /\ DomainLists[n] = << "https://deepcogitolabs.ai", "https://deepcogitolabs.com",
                                   "https://deepcogitolabs.io" >>

\* C22, amended: the cleaned name deepcogitolabs ends with the suffix labs,
\* so the roots are deepcogitolabs and deepcogito, and the domains are those
\* of the longer root followed by those of the stripped root.
C22_DeepCogitoTwoRoots ==
    \A n \in Acquiring :
        n = "DeepCogito Labs" =>
            /\ Len(SortedRoots[n]) = 2
            /\ Join(SortedRoots[n][1]) = "deepcogitolabs"
            /\ Join(SortedRoots[n][2]) = "deepcogito"
            /\ DomainLists[n] = << "https://deepcogitolabs.ai", "https://deepcogitolabs.com",
                                   "https://deepcogitolabs.io", "https://deepcogito.ai",
                                   "https://deepcogito.com", "https://deepcogito.io" >>

\* A call for "DeepCogito Labs" is fetching the favicon of https://deepcogito.ai.
C22_Witness ==
    \E w \in Writers :
        /\ wpc[w] = "download"
        /\ wprov[w] = "DeepCogito Labs"
        /\ idx[w] \in 1..Len(Candidates("DeepCogito Labs"))
        /\ Candidates("DeepCogito Labs")[idx[w]].url = FAVICON_BASE_URL("https://deepcogito.ai")

\* The roots each name of the model has, as spelled out by hand.
ExpectedRoots(n) ==
    CASE n = "Qwen" -> <<"qwen">>
      [] n = "Ac/me" -> <<"ac/me">>
      [] n = "Arcee AI" -> <<"arceeai", "arcee">>
      [] n = "NousResearch" -> <<"nousresearch", "nous">>
      [] n = "DeepCogito Labs" -> <<"deepcogitolabs", "deepcogito">>
      [] n = "Z.ai" -> <<"zai", "z">>
      [] n = "../x" -> <<"/x">>

\* C23: for every provider name a call is working on, the roots are the
\* cleaned name and the cleaned name without its matching suffix, in strictly
\* descending length; the domains are, root by root, https://root.ai,
\* https://root.com, https://root.io; for "NousResearch" the roots are
\* nousresearch and nous, and https://nousresearch.ai comes before
\* https://nous.ai.
C23_RootsLongestFirst ==
    \A n \in Acquiring \cap Names :
        LET rs == SortedRoots[n]
            ds == DomainLists[n]
            Pos(d) == CHOOSE i \in 1..Len(ds) : ds[i] = d
        IN /\ [i \in 1..Len(rs) |-> Join(rs[i])] = ExpectedRoots(n)
           /\ \A i \in 1..(Len(rs) - 1) : Len(rs[i]) > Len(rs[i + 1])
           /\ Len(ds) = 3 * Len(rs)
           /\ \A i \in 1..Len(rs) :
                /\ ds[3 * (i - 1) + 1] = "https://" \o Join(rs[i]) \o ".ai"
                /\ ds[3 * (i - 1) + 2] = "https://" \o Join(rs[i]) \o ".com"
                /\ ds[3 * (i - 1) + 3] = "https://" \o Join(rs[i]) \o ".io"
           /\ n = "NousResearch" =>
                /\ \E i, j \in 1..Len(ds) :
                     i < j /\ ds[i] = "https://nousresearch.ai" /\ ds[j] = "https://nous.ai"

\* A call for "NousResearch" is fetching the favicon of https://nous.ai, a
\* domain of the shorter root.
C23_Witness ==
    \E w \in Writers :
        /\ wpc[w] = "download"
        /\ wprov[w] = "NousResearch"
        /\ idx[w] \in 1..Len(Candidates("NousResearch"))
        /\ Candidates("NousResearch")[idx[w]].url = FAVICON_BASE_URL("https://nous.ai")

\* Priority of a category.
Rank(category) ==
    CASE category = "openrouter-mapped" -> 1
      [] category = "domain-mapped" -> 2
      [] category = "openrouter-heuristic" -> 3
      [] category = "domain-heuristic" -> 4
\* The positions of the candidates of a category in a list.
Of(cs, category) == { i \in 1..Len(cs) : cs[i].category = category }

\* C24: in the candidate list of every provider name a call is working on,
\* the categories come in the order openrouter-mapped, domain-mapped,
\* openrouter-heuristic, domain-heuristic; the openrouter-heuristic
\* candidates come in the extension order svg, png, jpg, jpeg; and there is
\* a mapped candidate (one) exactly when the lowercased name is a key of the
\* static map of that category.
C24_CategoryOrder ==
    \A n \in Acquiring \cap Names :
        LET cs == Candidates(n)
            ExtPos(i) == CHOOSE e \in 1..4 :
                             cs[i].url = ICON_BASE_URL(NoSpaces(n) \o <<".svg", ".png", ".jpg", ".jpeg">>[e])
        IN /\ \A i, j \in 1..Len(cs) : i < j => Rank(cs[i].category) <= Rank(cs[j].category)
           /\ \A i \in Of(cs, "openrouter-heuristic") :
                \E e \in 1..4 :
                    cs[i].url = ICON_BASE_URL(NoSpaces(n) \o <<".svg", ".png", ".jpg", ".jpeg">>[e])
           /\ \A i, j \in Of(cs, "openrouter-heuristic") : i < j => ExtPos(i) < ExtPos(j)
           /\ Cardinality(Of(cs, "openrouter-mapped")) =
                  (IF Lower(n) \in DOMAIN OPENROUTER_MAP THEN 1 ELSE 0)
           /\ Cardinality(Of(cs, "domain-mapped")) =
                  (IF Lower(n) \in DOMAIN DOMAIN_MAP THEN 1 ELSE 0)

\* A call for "Qwen", which is a key of both maps, has gone through the
\* mapped and the openrouter-heuristic candidates and is fetching a
\* domain-heuristic one.
C24_Witness ==
    \E w \in Writers :
        /\ wpc[w] = "download"
        /\ wprov[w] = "Qwen"
        /\ idx[w] \in Of(Candidates("Qwen"), "domain-heuristic")
        /\ Of(Candidates("Qwen"), "openrouter-mapped") # {}
        /\ Of(Candidates("Qwen"), "domain-mapped") # {}

(***************************************************************************)
(* Properties of the fetch loop.                                           *)
(***************************************************************************)
\* The fetches f of a call over the candidate list cs: candidate 1, then
\* candidate 2, and so on, none of them twice.
FetchedInOrder(f, cs) == Len(f) <= Len(cs) /\ \A i \in 1..Len(f) : f[i] = i

\* C30: within one download_provider_icon call, sequential or in a worker
\* of the pool, the candidates fetched so far are the first ones of the list,
\* each fetched once and in priority order, so there are never more fetches
\* than candidates; a call returns the failed entry after exactly one fetch
\* of every candidate.
C30_EachCandidateFetchedOnce ==
    /\ \A w \in Writers :
         wprov[w] \in Names =>
            /\ FetchedInOrder(wfetch[w], Candidates(wprov[w]))
            /\ (wpc[w] = "lock" /\ StatusOf(batch[w][wprov[w]]) = "failed")
                  => Len(wfetch[w]) = Len(Candidates(wprov[w]))
    /\ \A k \in 1..Len(argv) :
         /\ FetchedInOrder(tfetch[k], Candidates(argv[k]))
         /\ (tpc[k] = "done" /\ StatusOf(tres[k]) = "failed")
               => Len(tfetch[k]) = Len(Candidates(argv[k]))

\* A sequential call has fetched every one of the ten candidates of
\* "DeepCogito Labs" and returns the failed entry.
C30_Witness ==
    /\ wpc[Runner] = "lock"
    /\ wprov[Runner] = "DeepCogito Labs"
    /\ StatusOf(batch[Runner]["DeepCogito Labs"]) = "failed"
    /\ Len(wfetch[Runner]) = Len(Candidates("DeepCogito Labs"))
    /\ Len(wfetch[Runner]) = 10

(***************************************************************************)
(* Properties of the validation, checked under SpecFetch.                  *)
(***************************************************************************)
\* The body has one of the HTML signatures, in any spelling, wholly within
\* its first 1000 bytes.
HtmlSignatureInHead(data) ==
    \E i \in 1..Len(data) :
        /\ data[i] \in {"<html", "<HTML", "<!DOCTYPE html"}
        /\ ByteLen(SubSeq(data, 1, i)) <= 1000

\* C25: a _try_download call whose response body is empty, or has an HTML
\* signature within its first 1000 bytes, finds the body invalid whatever
\* the extension of the target is, and writes nothing to the icons
\* directory.
C25_HtmlAndEmptyRejected ==
    (resp.called /\ (resp.body = << >> \/ HtmlSignatureInHead(resp.body)))
        => (~resp.valid /\ ~resp.wrote /\ files = {})

\* A body that starts with the PNG signature and goes on with <HTML has been
\* rejected for a .png target.
C25_Witness ==
    /\ resp.called
    /\ resp.target = ".png"
    /\ resp.body = <<PNG_MAGIC, "<HTML">>
    /\ ~resp.valid
    /\ files = {}

\* C26 as stated: for a .png target, a body is accepted if it starts with
\* the PNG signature, whatever follows, and rejected if it does not.
C26_PngPrefixDecides ==
    (resp.called /\ resp.target = ".png")
        => (resp.valid <=> (resp.body # << >> /\ resp.body[1] = PNG_MAGIC))

\* C26, amended: for a .png target, a body is accepted if it starts with the
\* PNG signature and has no HTML signature within its first 1000 bytes, and
\* rejected otherwise.
C26_PngPrefixWithoutHtml ==
    (resp.called /\ resp.target = ".png")
        => (resp.valid <=> (/\ resp.body # << >>
                            /\ resp.body[1] = PNG_MAGIC
                            /\ ~HtmlSignatureInHead(resp.body)))

\* A body of the PNG signature, 992 other bytes and then <html, which lies
\* beyond the first 1000 bytes, has been accepted for a .png target and
\* written.
C26_Witness ==
    /\ resp.called
    /\ resp.target = ".png"
    /\ resp.body = <<PNG_MAGIC, Padding, "<html">>
    /\ resp.valid
    /\ resp.wrote
    /\ files = {IconFile("Qwen", ".png")}

(***************************************************************************)
(* Properties of the cache, checked under SpecCache.                       *)
(***************************************************************************)
\* C29: a CacheManager.read(filename, ttl) call on a file that exists, holds
\* JSON and is a seconds old returns the data when ttl is negative and when
\* a < ttl, and returns None when ttl is zero or positive and a >= ttl.
C29_TtlSemantics ==
    (cread.called /\ cread.kind = "json")
        => /\ (cread.ttl < 0 \/ cread.age < cread.ttl) => cread.result = "data"
           /\ (cread.ttl >= 0 /\ cread.age >= cread.ttl) => cread.result = "None"

\* A file written two seconds ago has been read with ttl 2 and found stale.
C29_Witness ==
    /\ cread.called
    /\ cread.kind = "json"
    /\ cread.ttl = 2
    /\ cread.age = 2
    /\ cread.result = "None"

(***************************************************************************)
(* Properties of the entries, checked under SpecStore.                     *)
(***************************************************************************)
\* C27: whenever icons.json holds a JSON object, each of its entries is the
\* entry of the provider it is stored under (one entry per provider name),
\* and an entry has a filename exactly when its status is success or cached.
C27_EntryShape ==
    doc.kind = "map" =>
        \A p \in DOMAIN doc.map :
            /\ doc.map[p].provider = p
            /\ Has(doc.map[p], "filename") <=> StatusOf(doc.map[p]) \in {"success", "cached"}

\* A failed result has been merged over a success entry, which kept its
\* filename and status, next to a failed entry without a filename.
C27_Witness ==
    /\ doc.kind = "map"
    /\ \E w \in Writers : Saved(w) /\ \E p \in DOMAIN batch[w] :
            /\ StatusOf(batch[w][p]) = "failed"
            /\ StatusOf(doc.map[p]) = "success"
            /\ Has(doc.map[p], "filename")
    /\ \E q \in DOMAIN doc.map :
            StatusOf(doc.map[q]) = "failed" /\ ~Has(doc.map[q], "filename")

(***************************************************************************)
(* Properties of the file names, checked under SpecResolver.               *)
(***************************************************************************)
\* The spellings of the image extensions.
ExtSpellings == { <<".", "s", "v", "g">>, <<".", "p", "n", "g">>, <<".", "j", "p", "g">>,
                  <<".", "j", "p", "e", "g">> }
\* File names made of a provider name, as it is or without some of its
\* characters, and an image extension, spelled out.
NameSpellings ==
    { Chars(n) \o e : n \in Names, e \in ExtSpellings }
        \cup { SelectSeq(Chars(n), LAMBDA c : c \notin {"/", " "}) \o e :
                   n \in Names, e \in ExtSpellings }
\* Those that consist of alphanumeric characters and . _ - only, and so name
\* a file directly under the directory they are joined to.
SafeFileNames ==
    { Join(cs) : cs \in { x \in NameSpellings :
                             \A i \in 1..Len(x) :
                                 \/ x[i] \in Range(UpperLetters) \cup Range(LowerLetters) \cup Digits
                                 \/ x[i] \in {".", "_", "-"} } }
\* The file names in the entries of a map.
FilenamesIn(m) == { m[p].filename : p \in { q \in DOMAIN m : Has(m[q], "filename") } }

\* C28: the names of the files in the icons directory, the file names in
\* the entries the downloader returns and in the entries of icons.json, and
\* the path the resolver returns when it is not the default icon, are made
\* of alphanumeric characters and . _ - only.
C28_FilenamesSafe ==
    /\ files \subseteq SafeFileNames
    /\ \A w \in Writers : FilenamesIn(batch[w]) \subseteq SafeFileNames
    /\ doc.kind = "map" => FilenamesIn(doc.map) \subseteq SafeFileNames
    /\ fgpath \in {"", "default"} \cup SafeFileNames

\* The resolver has returned the icon that the downloader wrote and recorded
\* for the provider "Ac/me".
C28_Witness ==
    /\ fgarg = "Ac/me"
    /\ fgpath = "Acme.svg"
    /\ fgpath \in files
    /\ doc.kind = "map"
    /\ "Ac/me" \in DOMAIN doc.map
    /\ Has(doc.map["Ac/me"], "filename")
    /\ doc.map["Ac/me"].filename = "Acme.svg"

(***************************************************************************)
(* Properties of the icon files, checked under SpecDownload.               *)
(***************************************************************************)
\* Process w returns from download_provider_icon(n) with the success entry
\* that names file f.
ReturnsSuccess(w, n, f) ==
    /\ wprov[w] = n
    /\ wpc[w] = "download"
    /\ wpc'[w] = "lock"
    /\ StatusOf(batch'[w][n]) = "success"
    /\ batch'[w][n].filename = f
\* Worker k returns from download_provider_icon(n) with the success entry
\* that names file f.
WorkerReturnsSuccess(k, n, f) ==
    /\ argv[k] = n
    /\ tpc[k] = "run"
    /\ tpc'[k] = "done"
    /\ StatusOf(tres'[k]) = "success"
    /\ tres'[k].filename = f

\* C31: every step that creates an icon file or changes the bytes of one is
\* the step of a download_provider_icon call in which the body of a candidate
\* passed validate_image_content for that file, and with which the call
\* returns the success entry of that file; so a call that goes through all
\* its candidates and returns the failed entry has created and changed no
\* icon file.
C31_WritesOnlyValidated ==
    [][ \A f \in files' :
          (f \notin files \/ fbody'[f] # fbody[f]) =>
             \E n \in Acquiring \cap Names :
                /\ \E e \in Range(IMAGE_EXTENSIONS) :
                      IconFile(n, e) = f /\ validate_image_content(fbody'[f], e)
                /\ \/ \E w \in Writers : ReturnsSuccess(w, n, f)
                   \/ \E k \in 1..Len(argv) : WorkerReturnsSuccess(k, n, f) ]_vars

\* A call for "Qwen" has fetched every candidate and returns the failed
\* entry; the icon file of an earlier run is the only file and holds the
\* bytes it held.
C31_Witness ==
    /\ wpc[Runner] = "lock"
    /\ wprov[Runner] = "Qwen"
    /\ StatusOf(batch[Runner]["Qwen"]) = "failed"
    /\ Len(wfetch[Runner]) = Len(Candidates("Qwen"))
    /\ files = {IconFile("Qwen", ".png")}
    /\ fbody[IconFile("Qwen", ".png")] = OldBody

\* C32: in every state, a success entry of icons.json names a file that is
\* in the icons directory and holds a whole body, one that passes
\* validate_image_content unless it is the file of an earlier run; and in the
\* step in which a success entry appears in icons.json or changes, the file it
\* names is in the icons directory already.
C32_FileBeforeEntry ==
    /\ [](doc.kind = "map" =>
            \A p \in DOMAIN doc.map :
                StatusOf(doc.map[p]) = "success" =>
                    /\ Has(doc.map[p], "filename")
                    /\ doc.map[p].filename \in files
                    /\ \/ fbody[doc.map[p].filename] = OldBody
                       \/ \E e \in Range(IMAGE_EXTENSIONS) :
                             /\ IconFile(p, e) = doc.map[p].filename
                             /\ validate_image_content(fbody[doc.map[p].filename], e))
    /\ [][ doc'.kind = "map" =>
             \A p \in DOMAIN doc'.map :
                 (/\ StatusOf(doc'.map[p]) = "success"
                  /\ (doc.kind # "map" \/ p \notin DOMAIN doc.map \/ doc.map[p] # doc'.map[p]))
                 => doc'.map[p].filename \in files ]_vars

\* The run has written the icon of "Ac/me", a whole SVG body, and its
\* success entry is in icons.json after the save of the run.
C32_Witness ==
    /\ Saved(Runner)
    /\ "Ac/me" \in DOMAIN batch[Runner]
    /\ "Ac/me" \in DOMAIN doc.map
    /\ StatusOf(doc.map["Ac/me"]) = "success"
    /\ doc.map["Ac/me"].filename = IconFile("Ac/me", ".svg")
    /\ IconFile("Ac/me", ".svg") \in files
    /\ fbody[IconFile("Ac/me", ".svg")] = <<"<svg", "</svg>">>

(***************************************************************************)
(* Properties of the endpoints cache, checked under SpecEndpoints.         *)
(***************************************************************************)
\* C33: for every file of the endpoints directory, refresh_all derives from
\* the file name the model id whose endpoints the file holds, and rewrites
\* that file; and no two model ids share a cache file: a get_endpoints call
\* that returns endpoints returns those of the model id it was called with.
C33_KeyRoundTrips ==
    /\ \A r \in rederived : r.id = r.held /\ r.rewrites = r.file
    /\ eget.called => eget.returned \in {<< >>, eget.id}

====
